---- MODULE Spec2Model ----
(***************************************************************************)
(* A model of the scoring pipeline of the repository: the metric           *)
(* calculators under src/cli/metrics and src/cli/Metric_tobedeleted and    *)
(* the aggregator process_url of src/cli/main.py.                          *)
(*                                                                         *)
(* Numbers.  Every score of the program is a Python float.  The model      *)
(* keeps a score as an integer number of hundredths (1.0 is 100, the       *)
(* sentinel -1.0 is -100), computes the formulas of the source as exact    *)
(* fractions and rounds where the source rounds.  net_score is kept in     *)
(* units of 1/NetUnit.                                                     *)
(*                                                                         *)
(* Dictionaries are functions whose DOMAIN is the set of keys present;     *)
(* dict.get(k, d) is Get(dict, k, d).                                      *)
(***************************************************************************)
EXTENDS Integers, Sequences, FiniteSets, TLC

VARIABLES
    size_metric,      \* the SizeMetric object: [size_score, score]
    size_call,        \* the last call made on it: [op, arg, ret, fetches]
    rampup_metric,    \* the RampUpMetric object: [score]
    rampup_call,      \* the last call made on it: [op, data]
    license_metric,   \* the LicenseMetric object: [name, score]
    license_call,     \* the last call made on it: [op, license, ret]
    pc,               \* process_url: "idle", "metrics", "aggregate", "done", "raised"
    idx,              \* process_url: index of the next metric of the list to run
    upstream,         \* process_url: what each calculator's resolve step sees for the URL
    failing,          \* process_url: the calculators whose internal computation raises
    metrics_results,  \* process_url: the flat result record being filled
    url,              \* process_url: the URL being scored
    perf_metric,      \* the PerformanceClaimsMetric object: [score]
    bus_metric,       \* the BusFactorMetric object: [score]
    call,             \* the last call made on them or on the URL helpers: [op, ...]
    code_quality_metric,     \* the CodeQualityMetric object: [score], in 1/400
    dataset_quality_metric,  \* the DatasetQualityMetric object: [score]
    instances,        \* the eight calculator objects a scoring run works with:
                      \* what each one last left as its score
    seen_datasets     \* url_handler.py: the keys of the module-level dict
                      \* seen_datasets, in insertion order

vars == << size_metric, size_call, rampup_metric, rampup_call, license_metric,
           license_call, pc, idx, upstream, failing, metrics_results, url,
           perf_metric, bus_metric, call, code_quality_metric,
           dataset_quality_metric, instances, seen_datasets >>

sizeVars == << size_metric, size_call >>
rampupVars == << rampup_metric, rampup_call >>
licenseVars == << license_metric, license_call >>
processVars == << pc, idx, upstream, failing, metrics_results, url >>
callVars == << perf_metric, bus_metric, call >>
laterVars == << code_quality_metric, dataset_quality_metric, instances, seen_datasets >>

----------------------------------------------------------------------------
(* Shared helpers *)

EmptyDict == [k \in {} |-> 0]

Get(dict, k, default) == IF k \in DOMAIN dict THEN dict[k] ELSE default

Min(a, b) == IF a <= b THEN a ELSE b

Max(a, b) == IF a >= b THEN a ELSE b

\* Python's round(x, 2) for x = n / d >= 0, in hundredths: the closest multiple
\* of 0.01, a tie going to the even one.  (On a tie that is not exactly
\* representable in binary the float may fall on either side; the sizes
\* sampled below avoid such ties.)
Round2(n, d) ==
    LET q == (100 * n) \div d
        r == (100 * n) % d
    IN  IF 2 * r < d THEN q
        ELSE IF 2 * r > d THEN q + 1
        ELSE IF q % 2 = 0 THEN q ELSE q + 1

RECURSIVE SumOver(_, _)
SumOver(f, S) ==
    IF S = {} THEN 0
    ELSE LET x == CHOOSE y \in S : TRUE
         IN  f[x] + SumOver(f, S \ {x})

----------------------------------------------------------------------------
(* SizeMetric: src/cli/metrics/size_metric.py *)

Devices == {"raspberry_pi", "jetson_nano", "desktop_pc", "aws_server"}

thresholds ==
    [d \in Devices |->
        CASE d = "raspberry_pi" -> 50
          [] d = "jetson_nano" -> 200
          [] d = "desktop_pc" -> 2000
          [] d = "aws_server" -> 10000]

ZeroSizeScore == [d \in Devices |-> 0]

\* Bounds of the sampled sizes (MB): multiples of 8 up to 8 * MaxSmallK,
\* multiples of 1000 up to 1000 * MaxGridK, and the neighbours of every
\* threshold T and of 3T (where the decay reaches 0).
MaxSmallK == 30

MaxGridK == 31

SizeSamples ==
    {-1, 0, 1}
    \cup {8 * k : k \in 1..MaxSmallK}
    \cup {1000 * k : k \in 1..MaxGridK}
    \cup {thresholds[d] + e : d \in Devices, e \in {-1, 0, 1}}
    \cup {3 * thresholds[d] + e : d \in Devices, e \in {-1, 0, 1}}

\* max(0.0, min(val, 1.0)) for val = n / d, as a numerator over d
Clamp01(n, d) == Max(0, Min(n, d))

DeviceScoreUnclamped(size_mb, max_size) ==
    LET d == 2 * max_size
        n == IF size_mb <= max_size
             THEN 2 * max_size - size_mb
             ELSE 3 * max_size - size_mb
    IN  IF n >= 0 THEN Round2(n, d) ELSE 0 - Round2(0 - n, d)

DeviceScoreRising(size_mb, max_size) ==
    LET d == 2 * max_size
        n == IF size_mb <= max_size
             THEN max_size + size_mb
             ELSE Max(0, 3 * max_size - size_mb)
    IN  Round2(Clamp01(n, d), d)

\* lines 53-57: one device's value for size_mb > 0, in hundredths
DeviceScore(size_mb, max_size) ==
    LET d == 2 * max_size
        n == IF size_mb <= max_size
             THEN 2 * max_size - size_mb            \* 0.5 + 0.5 * (1 - s / T)
             ELSE Max(0, 3 * max_size - size_mb)    \* max(0.0, 1.0 - (s - T) / (2 T))
    IN  Round2(Clamp01(n, d), d)

SizeGetData(parsed_data) == Get(parsed_data, "model_size_mb", 0)

\* calculate_score: the object's fields after the call.  score is the mean of
\* the four device scores, kept here in units of 1/400.
SizeCalculateScore(size_mb) ==
    IF size_mb <= 0
    THEN [size_score |-> ZeroSizeScore, score |-> 0]
    ELSE LET scores == [d \in Devices |-> DeviceScore(size_mb, thresholds[d])]
         IN  [size_score |-> scores, score |-> SumOver(scores, Devices)]

\* The arguments calculate is given: a URL string, a resolved record that
\* carries model_size_mb (or does not), or something that is neither.
SizeArgs ==
    {[type |-> "str", value |-> u] : u \in {"hub-model", "code-host", "not-a-url"}}
    \cup {[type |-> "dict", value |-> ("model_size_mb" :> s)] :
              s \in {-1, 0, 1, 40, 50, 51, 1000, 30001}}
    \cup {[type |-> "dict", value |-> EmptyDict]}
    \cup {[type |-> "other", value |-> 0]}

\* What fetch_metadata may resolve for a URL string: a record with or without
\* model_size_mb.
SizeFetched ==
    {EmptyDict} \cup {("model_size_mb" :> s) : s \in {0, 40, 1000}}

\* calculate, lines 63-93.  Line 65 rebinds the parameter parsed_data to an
\* empty dict before it is looked at, so the branches of lines 69-72 all see
\* a dict; fetched is what fetch_metadata would return.
SizeCalculate(arg, fetched) ==
    LET parsed_data == [type |-> "dict", value |-> EmptyDict]      \* line 65
        isStr == parsed_data.type = "str"
        resolved == IF isStr THEN fetched
                    ELSE IF parsed_data.type # "dict" THEN EmptyDict
                    ELSE parsed_data.value
        obj == SizeCalculateScore(SizeGetData(resolved))
    IN  [obj |-> obj,
         ret |-> ("size_score" :> obj.size_score),
         fetches |-> IF isStr THEN 1 ELSE 0]

\* size_call.prev remembers the calculate_score call before the last call:
\* its argument and the map it left.  A behaviour makes up to two calls
\* after a calculate_score and stops.
SizeInit ==
    /\ size_metric = [size_score |-> EmptyDict, score |-> -400]
    /\ size_call = [op |-> "none", arg |-> 0, ret |-> EmptyDict, fetches |-> 0,
                    prev |-> EmptyDict]

SizePrev ==
    IF size_call.op = "calculate_score"
    THEN [arg |-> size_call.arg, size_score |-> size_metric.size_score]
    ELSE size_call.prev

SizeDoCalculateScore ==
    \E s \in SizeSamples :
        /\ size_call.prev = EmptyDict
        /\ size_metric' = SizeCalculateScore(s)
        /\ size_call' = [op |-> "calculate_score", arg |-> s, ret |-> EmptyDict,
                         fetches |-> 0, prev |-> SizePrev]

SizeDoCalculate ==
    \E arg \in SizeArgs, fetched \in SizeFetched :
        LET r == SizeCalculate(arg, fetched)
        IN  /\ size_call.prev = EmptyDict
            /\ size_metric' = r.obj
            /\ size_call' = [op |-> "calculate", arg |-> arg, ret |-> r.ret,
                             fetches |-> r.fetches, prev |-> SizePrev]

----------------------------------------------------------------------------
(* RampUpMetric: src/cli/metrics/rampup_metric.py.  Each behaviour is one
   call on a fresh object, as process_url makes it. *)

Complexities == {"small", "medium", "large"}

Categories == {"MODEL", "DATASET", "CODE", ""}

\* description lengths on both sides of every tier of lines 188-199
DescriptionLengths == {0, 50, 100, 101, 150, 151, 300, 301, 5000}

\* the dict get_data builds (lines 146-157), without the tags it carries along
RampUpData ==
    [has_clear_documentation : BOOLEAN,
     description_length : DescriptionLengths,
     has_quick_start_guide : BOOLEAN,
     has_installation_instructions : BOOLEAN,
     has_runnable_examples : BOOLEAN,
     has_minimal_dependencies : BOOLEAN,
     model_complexity : Complexities,
     category : Categories]

\* line 244: self.score = min(score, 1.0)
RampUpCap(score) == Min(score, 100)

\* calculate_score, lines 178-249: the value left in self.score (hundredths)
RampUpCalculateScore(data) ==
    IF DOMAIN data = {} THEN 0                                  \* lines 179-182
    ELSE
    LET docs == IF data.has_clear_documentation
                THEN IF data.description_length > 300 THEN 30
                     ELSE IF data.description_length > 150 THEN 25
                     ELSE IF data.description_length > 100 THEN 15
                     ELSE 10
                ELSE 0
        quick == IF data.has_quick_start_guide THEN 25 ELSE 0
        install == IF data.has_installation_instructions THEN 20 ELSE 0
        examples == IF data.has_runnable_examples THEN 15 ELSE 0
        deps == IF data.has_minimal_dependencies THEN 10 ELSE 0
        complexity == IF data.model_complexity = "small" THEN 5
                      ELSE IF data.model_complexity = "large" THEN -5
                      ELSE 0
        category == IF data.category = "DATASET" THEN 5
                    ELSE IF data.category = "CODE" /\ ~data.has_runnable_examples
                    THEN -5
                    ELSE 0
    IN  RampUpCap(docs + quick + install + examples + deps + complexity + category)

\* calculate, lines 159-176: any exception of the resolve or of the scoring
\* is caught and the reported score is 0.0
RampUpCalculateUnguarded(data, raises) ==
    IF raises THEN [raised |-> TRUE, score |-> 0]
    ELSE [raised |-> FALSE, score |-> RampUpCalculateScore(data)]

RampUpCalculate(data, raises) ==
    IF raises THEN [raised |-> FALSE, score |-> 0]
    ELSE [raised |-> FALSE, score |-> RampUpCalculateScore(data)]

RampUpInit ==
    /\ rampup_metric = [score |-> 0]
    /\ rampup_call = [op |-> "none", data |-> EmptyDict, ret |-> EmptyDict]

RampUpScoreCall(data) ==
    /\ rampup_call.op = "none"
    /\ rampup_metric' = [score |-> RampUpCalculateScore(data)]
    /\ rampup_call' = [op |-> "calculate_score", data |-> data, ret |-> EmptyDict]

RampUpDoCalculateScore == \E data \in RampUpData : RampUpScoreCall(data)

\* calculate_score({}), lines 179-182
RampUpDoCalculateScoreNoData == RampUpScoreCall(EmptyDict)

\* calculate on a record get_data can read; when the computation raises,
\* self.score keeps its previous value and 0.0 is returned
RampUpDoCalculate ==
    \E data \in RampUpData, raises \in BOOLEAN :
        LET r == RampUpCalculate(data, raises)
        IN  /\ rampup_call.op = "none"
            /\ rampup_metric' = IF raises THEN rampup_metric
                                ELSE [score |-> RampUpCalculateScore(data)]
            /\ rampup_call' = [op |-> "calculate", data |-> data,
                               ret |-> ("ramp_up_time" :> r.score)]

----------------------------------------------------------------------------
(* Strings are sequences of one-character strings, so that strip, lower and
   the substring test of the source are computed, not assumed. *)

UpperChars == <<"A", "B", "C", "D", "E", "F", "G", "H", "I", "J", "K", "L", "M", "N", "O", "P", "Q", "R", "S", "T", "U", "V", "W", "X", "Y", "Z">>

LowerChars == <<"a", "b", "c", "d", "e", "f", "g", "h", "i", "j", "k", "l", "m", "n", "o", "p", "q", "r", "s", "t", "u", "v", "w", "x", "y", "z">>

Whitespace == {" ", "\t", "\n"}

LowerChar(c) ==
    IF \E i \in 1..Len(UpperChars) : UpperChars[i] = c
    THEN LowerChars[CHOOSE i \in 1..Len(UpperChars) : UpperChars[i] = c]
    ELSE c

UpperChar(c) ==
    IF \E i \in 1..Len(LowerChars) : LowerChars[i] = c
    THEN UpperChars[CHOOSE i \in 1..Len(LowerChars) : LowerChars[i] = c]
    ELSE c

\* str.lower() and str.upper()
Lower(str) == [i \in 1..Len(str) |-> LowerChar(str[i])]

Upper(str) == [i \in 1..Len(str) |-> UpperChar(str[i])]

\* str.strip()
RECURSIVE LStrip(_)
LStrip(str) ==
    IF str # <<>> /\ Head(str) \in Whitespace THEN LStrip(Tail(str)) ELSE str

RECURSIVE RStrip(_)
RStrip(str) ==
    IF str # <<>> /\ str[Len(str)] \in Whitespace
    THEN RStrip(SubSeq(str, 1, Len(str) - 1))
    ELSE str

Strip(str) == RStrip(LStrip(str))

\* sub in str
Contains(str, sub) ==
    \E i \in 1..(Len(str) - Len(sub) + 1) : SubSeq(str, i, i + Len(sub) - 1) = sub

EndsWith(str, suffix) ==
    Len(str) >= Len(suffix) /\ SubSeq(str, Len(str) - Len(suffix) + 1, Len(str)) = suffix

StartsWith(str, prefix) ==
    Len(str) >= Len(prefix) /\ SubSeq(str, 1, Len(prefix)) = prefix

RECURSIVE Spaces(_)
Spaces(n) == IF n = 0 THEN <<>> ELSE <<" ">> \o Spaces(n - 1)

----------------------------------------------------------------------------
(* LicenseMetric: src/cli/Metric_tobedeleted/license_metric.py *)

HIGH_QUALITY_LICENSES ==
    {<<"m", "i", "t">>,
     <<"a", "p", "a", "c", "h", "e", "-", "2", ".", "0">>,
     <<"b", "s", "d", "-", "2", "-", "c", "l", "a", "u", "s", "e">>,
     <<"b", "s", "d", "-", "3", "-", "c", "l", "a", "u", "s", "e">>,
     <<"i", "s", "c">>}

MEDIUM_QUALITY_LICENSES ==
    {<<"g", "p", "l", "-", "3", ".", "0">>,
     <<"g", "p", "l", "-", "2", ".", "0">>,
     <<"l", "g", "p", "l", "-", "2", ".", "1">>,
     <<"l", "g", "p", "l", "-", "3", ".", "0">>,
     <<"m", "p", "l", "-", "2", ".", "0">>,
     <<"e", "p", "l", "-", "2", ".", "0">>}

CUSTOM_LICENSE_KEYWORD == <<"c", "u", "s", "t", "o", "m">>

UNKNOWN_LICENSE == <<"u", "n", "k", "n", "o", "w", "n">>

\* Other license strings upstream records carry: copyleft licenses of the
\* gpl, lgpl, mpl and epl families that the two sets do not list, strings
\* with the custom keyword inside, and unrelated ones.
OtherLicenses ==
    {<<"g", "p", "l">>,
     <<"l", "g", "p", "l", "-", "2", ".", "0">>,
     <<"m", "p", "l", "-", "1", ".", "1">>,
     <<"e", "p", "l", "-", "1", ".", "0">>,
     <<"a", "g", "p", "l", "-", "3", ".", "0">>,
     <<"c", "u", "s", "t", "o", "m", "-", "m", "i", "t">>,
     <<"m", "y", " ", "c", "u", "s", "t", "o", "m", " ", "t", "e", "r", "m", "s">>,
     <<"c", "c", "-", "b", "y", "-", "4", ".", "0">>,
     <<"o", "p", "e", "n", "r", "a", "i", "l">>,
     <<"o", "t", "h", "e", "r">>}

LicenseBases ==
    HIGH_QUALITY_LICENSES \cup MEDIUM_QUALITY_LICENSES \cup OtherLicenses
    \cup {CUSTOM_LICENSE_KEYWORD, UNKNOWN_LICENSE, <<>>}

\* bound: how many blanks a license string carries on each side
MaxPad == 1

\* the license strings scored: every base, as written or upper-cased, padded
LicenseStrings ==
    {Spaces(l) \o c \o Spaces(r) :
        c \in LicenseBases \cup {Upper(b) : b \in LicenseBases},
        l \in 0..MaxPad, r \in 0..MaxPad}

\* The normalisation of line 107
NormalizeNoLower(license_str) == Strip(license_str)

Normalize(license_str) == Lower(Strip(license_str))

\* lines 105-117: the score of a resolved license string (hundredths);
\* None and the empty string are falsy and keep 0.0
LicenseScoreMedium75(license_str) ==
    IF license_str = <<>> THEN 0
    ELSE LET norm == Normalize(license_str)
         IN  IF norm \in HIGH_QUALITY_LICENSES THEN 100
             ELSE IF norm \in MEDIUM_QUALITY_LICENSES THEN 75
             ELSE IF Contains(norm, CUSTOM_LICENSE_KEYWORD) THEN 50
             ELSE 20

LicenseScore(license_str) ==
    IF license_str = <<>> THEN 0
    ELSE LET norm == Normalize(license_str)
         IN  IF norm \in HIGH_QUALITY_LICENSES THEN 100
             ELSE IF norm \in MEDIUM_QUALITY_LICENSES THEN 70
             ELSE IF Contains(norm, CUSTOM_LICENSE_KEYWORD) THEN 50
             ELSE IF norm = UNKNOWN_LICENSE THEN 20
             ELSE 20

\* What get_data reads: the record fetch_metadata resolved (its license, when
\* it has one, and whether its url is on a code host) and what the code
\* host answers to the two requests of lines 55-94: the spdx_id of the
\* license endpoint (<<>> when the request fails or it has none) and the
\* licenses whose name occurs in the README.
LicenseRecords ==
    {[license |-> <<l>>, code |-> c, spdx |-> x, readme |-> {}] :
        l \in LicenseStrings, c \in BOOLEAN, x \in {<<>>, <<"M", "I", "T">>}}
    \cup [license : {<<>>},
          code : BOOLEAN,
          spdx : {<<>>, <<"M", "I", "T">>, <<"G", "P", "L", "-", "3", ".", "0">>,
                  <<"N", "O", "A", "S", "S", "E", "R", "T", "I", "O", "N">>},
          readme : {{}, {<<"m", "i", "t">>}, {<<"m", "i", "t">>, <<"e", "p", "l", "-", "2", ".", "0">>}}]

\* get_data, lines 42-96: the license string, <<>> for None.  rec.license is
\* <<>> when the record has no license string and <<l>> when it has l.  The
\* README scan returns the first hit in the iteration order of a Python
\* set, which the language leaves open: pick is the one it meets first.
LicenseGetData(rec, pick) ==
    IF rec.license # <<>> /\ Strip(rec.license[1]) # <<>>
    THEN Strip(rec.license[1])
    ELSE IF ~rec.code THEN <<>>
    ELSE IF rec.spdx # <<>> /\ rec.spdx # <<"N", "O", "A", "S", "S", "E", "R", "T", "I", "O", "N">>
    THEN rec.spdx
    ELSE IF rec.readme # {} THEN pick
    ELSE <<>>

\* calculate, lines 98-129: the score kept in self.score and returned under
\* the metric's name, which line 39 sets to "license_score"
LicenseName == "license_score"

LicenseCalculate(rec, pick, raises) ==
    LET score == IF raises THEN 0 ELSE LicenseScore(LicenseGetData(rec, pick))
    IN  [raised |-> FALSE, score |-> score, ret |-> (LicenseName :> score)]

LicenseInit ==
    /\ license_metric = [name |-> LicenseName, score |-> -100]
    /\ license_call = [op |-> "none", rec |-> EmptyDict, license_str |-> <<>>,
                       raises |-> FALSE, ret |-> EmptyDict]

LicenseDoCalculate ==
    \E rec \in LicenseRecords, raises \in BOOLEAN :
        \E pick \in (IF rec.readme = {} THEN {<<>>} ELSE rec.readme) :
            LET r == LicenseCalculate(rec, pick, raises)
            IN  /\ license_call.op = "none"
                    /\ license_metric' = [license_metric EXCEPT !.score = r.score]
                    /\ license_call' = [op |-> "calculate", rec |-> rec,
                                        license_str |-> IF raises THEN <<>>
                                                        ELSE LicenseGetData(rec, pick),
                                        raises |-> raises, ret |-> r.ret]

----------------------------------------------------------------------------
(* The other calculators process_url runs *)

\* Lines 105-107 without the cap at 1.0
BusFactorCalculateUncapped(unique_count, raises) ==
    LET score == IF raises \/ unique_count <= 0 THEN 0
                 ELSE Round2(unique_count, 50)
    IN  [raised |-> FALSE, score |-> score, ret |-> ("bus_factor" :> score)]

\* BusFactorMetric.calculate, bus_factor_metric.py lines 98-119, for
\* unique_count distinct authors: round(min(1.0, unique_count / 50.0), 2)
BusFactorCalculate(unique_count, raises) ==
    LET score == IF raises \/ unique_count <= 0 THEN 0
                 ELSE Round2(Min(unique_count, 50), 50)
    IN  [raised |-> FALSE, score |-> score, ret |-> ("bus_factor" :> score)]

\* PerformanceClaimsMetric.get_data, performance_claims_metric.py lines
\* 16-27: every signal is read from parsed_data["metadata"] and the category
\* from parsed_data["category"], each with a default when the key is absent
PerformanceClaimsGetData(parsed_data) ==
    LET metadata == Get(parsed_data, "metadata", EmptyDict)
    IN  [model_index |-> Get(metadata, "model_index", FALSE),
         results |-> Get(metadata, "results", 0),
         perf_tag |-> Get(metadata, "perf_tag", FALSE),
         card_model_index |-> Get(metadata, "card_model_index", FALSE),
         downloads |-> Get(metadata, "downloads", 0),
         likes |-> Get(metadata, "likes", 0),
         category |-> Get(parsed_data, "category", "UNKNOWN")]

\* Lines 75-76 without the floor
PerformanceFloorNone(score) == score

\* The floor of lines 75-76
PerformanceFloor(score) == IF score = 0 THEN 10 ELSE score

\* calculate_score, lines 29-79 (hundredths).  data.model_index tells whether
\* the model-index is a non-empty list, data.results is the number of
\* results of its first entry that has any (0: none has),
\* data.perf_tag whether a tag names a benchmark, data.card_model_index
\* whether cardData carries a model-index.
PerformanceClaimsCalculateScore(data) ==
    IF data.category # "MODEL" THEN 0
    ELSE
    LET index == IF ~data.model_index THEN 0
                 ELSE IF data.results > 1 THEN 70
                 ELSE IF data.results = 1 THEN 50 ELSE 0
        tags == IF data.perf_tag THEN 25 ELSE 0
        card == IF data.card_model_index /\ ~data.model_index THEN 30 ELSE 0
        popular == IF data.downloads > 100000 \/ data.likes > 500 THEN 40
                   ELSE IF data.downloads > 10000 \/ data.likes > 100 THEN 30
                   ELSE IF data.downloads > 1000 \/ data.likes > 10 THEN 20
                   ELSE IF data.downloads > 100 \/ data.likes > 5 THEN 10
                   ELSE 0
        score == index + tags + card + popular
    IN  Min(PerformanceFloor(score), 100)

\* calculate, lines 81-104
PerformanceClaimsCalculate(parsed_data, raises) ==
    LET score == IF raises THEN 0
                 ELSE PerformanceClaimsCalculateScore(PerformanceClaimsGetData(parsed_data))
    IN  [raised |-> FALSE, score |-> score, ret |-> ("performance_claims" :> score)]

\* DatasetQualityMetric._calculate_heuristic_score, dataset_quality_metric.py
\* lines 33-76 (hundredths)
DatasetQualityHeuristic(data) ==
    Min((IF data.dataset_url THEN 30 ELSE 0)
        + (IF data.code_url THEN 30 ELSE 0)
        + (IF data.description_length > 100 THEN 20
           ELSE IF data.description_length > 50 THEN 10 ELSE 0)
        + (IF data.has_readme THEN 10 ELSE 0)
        + (IF data.has_examples THEN 10 ELSE 0), 100)

\* calculate_score and calculate, lines 78-159.  api is the outcome of the
\* external judgment: [ok |-> TRUE, reply |-> r] when a key is configured and
\* the call answers 200 with the number r (hundredths), [ok |-> FALSE]
\* otherwise.
DatasetQualityCalculate(data, api, raises) ==
    LET score == IF raises THEN 0
                 ELSE IF api.ok THEN Max(0, Min(100, api.reply))
                 ELSE DatasetQualityHeuristic(data)
    IN  [raised |-> FALSE, score |-> score, ret |-> ("dataset_quality" :> score)]

\* CodeQualityMetric.calculate, code_quality_metric.py lines 177-229: the
\* weighted sum as a count of quarter-hundredths, rounded to two places
CodeQualityCalculate(data, raises) ==
    LET doc_pack == IF data.has_readme /\ data.has_packaging THEN 60
                    ELSE IF data.has_readme \/ data.has_packaging THEN 30
                    ELSE 0
        quarters == 4 * ((IF data.has_tests THEN 30 ELSE 0)
                         + (IF data.has_ci THEN 25 ELSE 0)
                         + (IF data.has_lint_config THEN 15 ELSE 0))
                    + 3 * Min(data.python_file_count, 20)
                    + doc_pack
        score == IF raises THEN 0 ELSE Round2(Max(0, Min(quarters, 400)), 400)
    IN  [raised |-> FALSE, score |-> score, ret |-> ("code_quality" :> score)]

\* DatasetAndCodeMetric (cli/metrics/dataset_and_code_metric.py): a weighted
\* presence blend clamped to [0, 1], 0.0 on an internal failure, reported as
\* dataset_and_code_score
DatasetAndCodeCalculate(blend, raises) ==
    LET score == IF raises THEN 0 ELSE Max(0, Min(100, blend))
    IN  [raised |-> FALSE, score |-> score, ret |-> ("dataset_and_code_score" :> score)]

\* SizeMetric and RampUpMetric and LicenseMetric as process_url calls them
SizeMetricCalculate(fetched, raises) ==
    LET r == SizeCalculate([type |-> "str", value |-> "url"], fetched)
    IN  [raised |-> FALSE,
         ret |-> IF raises THEN ("size_score" :> ZeroSizeScore) ELSE r.ret]

RampUpMetricCalculate(data, raises) ==
    LET r == RampUpCalculate(data, raises)
    IN  [raised |-> r.raised, ret |-> ("ramp_up_time" :> r.score)]

LicenseMetricCalculate(rec, raises) ==
    LET r == LicenseCalculate(rec, <<"m", "i", "t">>, raises)
    IN  [raised |-> r.raised, ret |-> r.ret]

----------------------------------------------------------------------------
(* process_url: src/cli/main.py *)

\* lines 27-36
metrics ==
    << "RampUpMetric", "BusFactorMetric", "PerformanceClaimsMetric", "LicenseMetric",
       "SizeMetric", "DatasetAndCodeMetric", "DatasetQualityMetric",
       "CodeQualityMetric" >>

Metrics == {metrics[i] : i \in 1..Len(metrics)}

\* self.name of each calculator, and the latency key timed_calculate adds
Name(m) ==
    CASE m = "RampUpMetric" -> "ramp_up_time"
      [] m = "BusFactorMetric" -> "bus_factor"
      [] m = "PerformanceClaimsMetric" -> "performance_claims"
      [] m = "LicenseMetric" -> LicenseName
      [] m = "SizeMetric" -> "size_score"
      [] m = "DatasetAndCodeMetric" -> "dataset_and_code_score"
      [] m = "DatasetQualityMetric" -> "dataset_quality"
      [] m = "CodeQualityMetric" -> "code_quality"

LatencyKey(m) ==
    CASE m = "RampUpMetric" -> "ramp_up_time_latency"
      [] m = "BusFactorMetric" -> "bus_factor_latency"
      [] m = "PerformanceClaimsMetric" -> "performance_claims_latency"
      [] m = "LicenseMetric" -> "license_score_latency"
      [] m = "SizeMetric" -> "size_score_latency"
      [] m = "DatasetAndCodeMetric" -> "dataset_and_code_score_latency"
      [] m = "DatasetQualityMetric" -> "dataset_quality_latency"
      [] m = "CodeQualityMetric" -> "code_quality_latency"

\* lines 15-23, in hundredths
WEIGHTS ==
    [ramp_up_time |-> 20, bus_factor |-> 15, performance_claims |-> 15,
     license |-> 10, size_score |-> 15, dataset_and_code_score |-> 15,
     code_quality |-> 10]

\* the scalar keys the sum of lines 50-62 reads
ScalarKeys ==
    {"ramp_up_time", "bus_factor", "performance_claims", "license",
     "dataset_and_code_score", "code_quality"}

\* net_score is kept in units of 1/NetUnit: a weight and a score are
\* hundredths, and the mean of a size map of 1 to 4 entries needs twelfths
NetUnit == 100 * 100 * 12

\* lines 44-48: twelve times the mean of the size map, 0 without one
SizeMean12(results) ==
    IF "size_score" \in DOMAIN results /\ DOMAIN results["size_score"] # {}
    THEN LET size_obj == results["size_score"]
         IN  SumOver(size_obj, DOMAIN size_obj) * (12 \div Cardinality(DOMAIN size_obj))
    ELSE 0

\* lines 50-62: the weighted sum before the clamp
RECURSIVE WeightedSum(_, _)
WeightedSum(results, keys) ==
    IF keys = {} THEN 0
    ELSE LET k == CHOOSE x \in keys : TRUE
         IN  WEIGHTS[k] * Get(results, k, 0) + WeightedSum(results, keys \ {k})

NetSum(results) ==
    12 * WeightedSum(results, ScalarKeys) + WEIGHTS["size_score"] * SizeMean12(results)

\* line 64
NetClampNone(net) == net

NetClamp(net) == Max(0, Min(NetUnit, net))

NetScore(results) == NetClamp(NetSum(results))

\* lines 65-70: the sum of the values under the keys ending in _latency
LatencyKeys == {LatencyKey(m) : m \in Metrics}

\* The sum of lines 65-70 reading the license latency under the key of the
\* weight table, "license_latency"
NetLatencyByWeightKeys(results) ==
    SumOver(results, DOMAIN results \cap (LatencyKeys \ {"license_score_latency"}))

NetLatency(results) == SumOver(results, DOMAIN results \cap LatencyKeys)

\* str.split("/")
RECURSIVE Split(_)
Split(str) ==
    IF \A i \in 1..Len(str) : str[i] # "/" THEN << str >>
    ELSE LET i == CHOOSE j \in 1..Len(str) :
                      str[j] = "/" /\ \A h \in 1..(j - 1) : str[h] # "/"
         IN  << SubSeq(str, 1, i - 1) >> \o Split(SubSeq(str, i + 1, Len(str)))

\* lines 76-84
NameOf(u) ==
    LET path_parts == Split(u)
        n == Len(path_parts)
    IN  IF path_parts[n] # <<>> THEN path_parts[n]
        ELSE IF n > 2 THEN path_parts[n - 1]
        ELSE u

\* lines 86-94
CategoryOf(u) ==
    IF Contains(u, <<"h", "u", "g", "g", "i", "n", "g", "f", "a", "c", "e", ".", "c", "o", "/", "d", "a", "t", "a", "s", "e", "t", "s">>) THEN "DATASET"
    ELSE IF Contains(u, <<"h", "u", "g", "g", "i", "n", "g", "f", "a", "c", "e", ".", "c", "o">>) THEN "MODEL"
    ELSE IF Contains(u, <<"g", "i", "t", "h", "u", "b", ".", "c", "o", "m">>) THEN "REPO"
    ELSE "UNKNOWN"

\* The URLs scored
UrlSamples ==
    {<<"h", "t", "t", "p", "s", ":", "/", "/", "h", "u", "g", "g", "i", "n", "g", "f", "a", "c", "e", ".", "c", "o", "/", "o", "r", "g", "/", "m">>,
     <<"h", "t", "t", "p", "s", ":", "/", "/", "h", "u", "g", "g", "i", "n", "g", "f", "a", "c", "e", ".", "c", "o", "/", "d", "a", "t", "a", "s", "e", "t", "s", "/", "d", "/">>,
     <<"h", "t", "t", "p", "s", ":", "/", "/", "g", "i", "t", "h", "u", "b", ".", "c", "o", "m", "/", "o", "/", "r">>,
     <<"h", "t", "t", "p", "s", ":", "/", "/", "g", "i", "t", "l", "a", "b", ".", "c", "o", "m", "/", "o", "/", "r">>,
     <<"h", "t", "t", "p", "s", ":", "/", "/", "H", "u", "g", "g", "i", "n", "g", "F", "a", "c", "e", ".", "c", "o", "/", "o", "/", "m">>,
     <<"h", "t", "t", "p", "s", ":", "/", "/", "g", "i", "t", "h", "u", "b", ".", "c", "o", "m", "/", "o", "/", "r", "/", "/">>,
     <<"n", "o", "t", "-", "a", "-", "u", "r", "l">>}

\* What each calculator computes from for the URL: the outcome of its own
\* resolve step
RampUpCases ==
    {[has_clear_documentation |-> FALSE, description_length |-> 0,
      has_quick_start_guide |-> FALSE, has_installation_instructions |-> FALSE,
      has_runnable_examples |-> FALSE, has_minimal_dependencies |-> FALSE,
      model_complexity |-> "large", category |-> ""],
     [has_clear_documentation |-> TRUE, description_length |-> 301,
      has_quick_start_guide |-> TRUE, has_installation_instructions |-> TRUE,
      has_runnable_examples |-> TRUE, has_minimal_dependencies |-> TRUE,
      model_complexity |-> "small", category |-> ""]}

BusFactorCases == {0, 2}

\* fetch_metadata adds neither a category nor a metadata key to the record
PerformanceClaimsCases == {("downloads" :> 200000)}

LicenseCases ==
    {[license |-> <<>>, code |-> FALSE, spdx |-> <<>>, readme |-> {}],
     [license |-> << <<"M", "I", "T">> >>, code |-> FALSE, spdx |-> <<>>, readme |-> {}]}

SizeCases == {("model_size_mb" :> 40)}

DatasetAndCodeCases == {0, 60}

DatasetQualityCases ==
    {[dataset_url |-> FALSE, code_url |-> FALSE, description_length |-> 0,
      has_readme |-> FALSE, has_examples |-> FALSE],
     [dataset_url |-> TRUE, code_url |-> TRUE, description_length |-> 120,
      has_readme |-> TRUE, has_examples |-> FALSE]}

CodeQualityCases ==
    {[has_tests |-> FALSE, has_ci |-> FALSE, has_lint_config |-> FALSE,
      python_file_count |-> 0, has_readme |-> FALSE, has_packaging |-> FALSE],
     [has_tests |-> TRUE, has_ci |-> TRUE, has_lint_config |-> TRUE,
      python_file_count |-> 40, has_readme |-> TRUE, has_packaging |-> TRUE]}

Upstreams ==
    [RampUpMetric : RampUpCases, BusFactorMetric : BusFactorCases,
     PerformanceClaimsMetric : PerformanceClaimsCases, LicenseMetric : LicenseCases,
     SizeMetric : SizeCases, DatasetAndCodeMetric : DatasetAndCodeCases,
     DatasetQualityMetric : DatasetQualityCases, CodeQualityMetric : CodeQualityCases,
     latency : {[m \in Metrics |-> 0],
                [m \in Metrics |-> IF m = "SizeMetric" THEN 0 ELSE 12],
                [m \in Metrics |-> CHOOSE i \in 1..Len(metrics) : metrics[i] = m]}]

\* bound: how many of the eight calculators fail internally in one run
MaxFailures == 1

\* calculate of calculator m on what it resolves
Calculate(m, up, raises) ==
    CASE m = "RampUpMetric" -> RampUpMetricCalculate(up[m], raises)
      [] m = "BusFactorMetric" ->
            [raised |-> FALSE, ret |-> BusFactorCalculate(up[m], raises).ret]
      [] m = "PerformanceClaimsMetric" ->
            [raised |-> FALSE, ret |-> PerformanceClaimsCalculate(up[m], raises).ret]
      [] m = "LicenseMetric" -> LicenseMetricCalculate(up[m], raises)
      [] m = "SizeMetric" -> SizeMetricCalculate(up[m], raises)
      [] m = "DatasetAndCodeMetric" ->
            [raised |-> FALSE, ret |-> DatasetAndCodeCalculate(up[m], raises).ret]
      [] m = "DatasetQualityMetric" ->
            [raised |-> FALSE,
             ret |-> DatasetQualityCalculate(up[m], [ok |-> FALSE], raises).ret]
      [] m = "CodeQualityMetric" ->
            [raised |-> FALSE, ret |-> CodeQualityCalculate(up[m], raises).ret]

\* MetricCalculator.timed_calculate, src/cli/metrics/base.py lines 12-18
timed_calculate(m, up, raises) ==
    LET result == Calculate(m, up, raises)
    IN  IF result.raised THEN result
        ELSE [raised |-> FALSE,
              ret |-> (LatencyKey(m) :> up.latency[m]) @@ result.ret]

\* lines 27-36 (and menu.py lines 64-73): the eight objects as their
\* constructors leave them: score 0.0 for RampUpMetric and
\* PerformanceClaimsMetric, -1.0 for the others, an empty size map
FreshInstances ==
    [m \in Metrics |->
        [score |-> IF m \in {"RampUpMetric", "PerformanceClaimsMetric"} THEN 0
                   ELSE IF m = "SizeMetric" THEN EmptyDict
                   ELSE 0 - 100]]

\* The state of a call of process_url(u) at line 38
ProcessInit ==
    /\ pc = "metrics"
    /\ idx = 1
    /\ url \in UrlSamples
    /\ upstream \in Upstreams
    /\ failing \in {F \in SUBSET Metrics : Cardinality(F) <= MaxFailures}
    /\ metrics_results = EmptyDict

\* lines 39-40: one turn of the loop
RunMetric ==
    /\ pc = "metrics"
    /\ LET m == metrics[idx]
           r == timed_calculate(m, upstream, m \in failing)
       IN  IF r.raised
           THEN /\ pc' = "raised"
                /\ UNCHANGED << idx, metrics_results >>
           ELSE /\ metrics_results' = r.ret @@ metrics_results
                /\ idx' = idx + 1
                /\ pc' = IF idx = Len(metrics) THEN "aggregate" ELSE "metrics"
    /\ UNCHANGED << upstream, failing, url >>

\* lines 42-96: the net score and the derived fields
Aggregate ==
    /\ pc = "aggregate"
    /\ metrics_results' =
            ("net_score" :> NetScore(metrics_results)
             @@ "net_score_latency" :> NetLatency(metrics_results)
             @@ "name" :> NameOf(url)
             @@ "category" :> CategoryOf(url))
            @@ metrics_results
    /\ pc' = "done"
    /\ UNCHANGED << idx, upstream, failing, url >>

\* PerformanceClaimsMetric.__init__ (score 0.0), BusFactorMetric.__init__
\* (score -1.0), and no call made yet
CallIdle ==
    /\ perf_metric = [score |-> 0]
    /\ bus_metric = [score |-> 0 - 100]
    /\ call = [op |-> "none"]
    /\ code_quality_metric = [score |-> 0 - 400]
    /\ dataset_quality_metric = [score |-> 0 - 100]
    /\ seen_datasets = <<>>
    /\ instances = FreshInstances

ProcessIdle ==
    /\ pc = "idle"
    /\ idx = 0
    /\ url = <<>>
    /\ upstream = EmptyDict
    /\ failing = {}
    /\ metrics_results = EmptyDict

----------------------------------------------------------------------------
(* Specifications *)

\* Spec: one call of process_url
Init == ProcessInit /\ SizeInit /\ RampUpInit /\ LicenseInit /\ CallIdle

Next ==
    /\ RunMetric \/ Aggregate
    /\ UNCHANGED << sizeVars, rampupVars, licenseVars, callVars, laterVars >>

Spec == Init /\ [][Next]_vars

\* SpecRecord: lines 42-96 of process_url on every result record the loop of
\* lines 39-40 can leave: each weighted key absent, the sentinel -1.0 or a
\* score of [0, 1]; the size map absent, empty or any per-device map.
Sentinel == 0 - 100

Absent == 0 - 1000

\* bound: the scores of [0, 1] sampled are the multiples of 1 / ScoreGrid
ScoreGrid == 1

ScoreValues == {(100 * k) \div ScoreGrid : k \in 0..ScoreGrid}

SizeMaps ==
    {[d \in Devices |-> 0], [d \in Devices |-> 100],
     [d \in Devices |-> IF d = "raspberry_pi" THEN 0 ELSE 100], EmptyDict}

ResultRecords ==
    {[k \in {x \in ScalarKeys : f[x] # Absent} |-> f[k]] @@ sz :
        f \in [ScalarKeys -> ScoreValues \cup {Sentinel, Absent}],
        sz \in {EmptyDict} \cup {("size_score" :> m) : m \in SizeMaps}}

RecordInit ==
    /\ pc = "aggregate"
    /\ idx = Len(metrics) + 1
    /\ url \in {<<"n", "o", "t", "-", "a", "-", "u", "r", "l">>}
    /\ upstream = EmptyDict
    /\ failing = {}
    /\ metrics_results \in ResultRecords

InitRecord == RecordInit /\ SizeInit /\ RampUpInit /\ LicenseInit /\ CallIdle

NextRecord ==
    /\ Aggregate
    /\ UNCHANGED << sizeVars, rampupVars, licenseVars, callVars, laterVars >>

SpecRecord == InitRecord /\ [][NextRecord]_vars

\* SpecSize: calls on one SizeMetric object
SizeNext ==
    /\ SizeDoCalculateScore \/ SizeDoCalculate
    /\ UNCHANGED << rampupVars, licenseVars, processVars, callVars, laterVars >>

InitSize == SizeInit /\ RampUpInit /\ LicenseInit /\ ProcessIdle /\ CallIdle

SpecSize == InitSize /\ [][SizeNext]_vars

\* SpecRampUp: calls on one RampUpMetric object
RampUpNext ==
    /\ RampUpDoCalculateScore \/ RampUpDoCalculateScoreNoData \/ RampUpDoCalculate
    /\ UNCHANGED << sizeVars, licenseVars, processVars, callVars, laterVars >>

InitRampUp == SizeInit /\ RampUpInit /\ LicenseInit /\ ProcessIdle /\ CallIdle

SpecRampUp == InitRampUp /\ [][RampUpNext]_vars

\* SpecLicense: calls on one LicenseMetric object
LicenseNext ==
    /\ LicenseDoCalculate
    /\ UNCHANGED << sizeVars, rampupVars, processVars, callVars, laterVars >>

InitLicense == SizeInit /\ RampUpInit /\ LicenseInit /\ ProcessIdle /\ CallIdle

SpecLicense == InitLicense /\ [][LicenseNext]_vars

----------------------------------------------------------------------------
(* URL helpers, src/cli/url_handler.py *)

\* A Python value whose type the code tests: [t |-> "str", s |-> characters],
\* [t |-> "none"], [t |-> "num", n |-> number], [t |-> "list", l |-> sequence],
\* [t |-> "dict", d |-> dictionary]
Str(chars) == [t |-> "str", s |-> chars]

None == [t |-> "none"]

\* lines 104-107
MODEL == <<"M", "O", "D", "E", "L">>

DATABASE == <<"D", "A", "T", "A", "B", "A", "S", "E">>

CODE == <<"C", "O", "D", "E">>

\* OTHER of line 107
OTHER_KIND == <<"O", "T", "H", "E", "R">>

HubDatasetMarker == <<"h", "u", "g", "g", "i", "n", "g", "f", "a", "c", "e", ".", "c", "o", "/", "d", "a", "t", "a", "s", "e", "t", "s">>

HubHost == <<"h", "u", "g", "g", "i", "n", "g", "f", "a", "c", "e", ".", "c", "o">>

GithubHost == <<"g", "i", "t", "h", "u", "b", ".", "c", "o", "m">>

GitlabHost == <<"g", "i", "t", "l", "a", "b", ".", "c", "o", "m">>

\* classify_url with the second rule tried before the first
ClassifyUrlHostFirst(x) ==
    IF x.t # "str" THEN OTHER_KIND
    ELSE IF x.s = <<>> THEN OTHER_KIND
    ELSE LET u == Lower(x.s)
         IN  IF Contains(u, HubHost) THEN MODEL
             ELSE IF Contains(u, HubDatasetMarker) THEN DATABASE
             ELSE IF Contains(u, GithubHost) \/ Contains(u, GitlabHost) THEN CODE
             ELSE OTHER_KIND

\* classify_url, lines 110-129, of any Python value
classify_url(x) ==
    IF x.t # "str" THEN OTHER_KIND
    ELSE IF x.s = <<>> THEN OTHER_KIND
    ELSE LET u == Lower(x.s)
         IN  IF Contains(u, HubDatasetMarker) THEN DATABASE
             ELSE IF Contains(u, HubHost) THEN MODEL
             ELSE IF Contains(u, GithubHost) \/ Contains(u, GitlabHost) THEN CODE
             ELSE OTHER_KIND

\* str.split(c)[0] for a one-character c
BeforeFirst(str, c) ==
    IF \A i \in 1..Len(str) : str[i] # c THEN str
    ELSE LET i == CHOOSE j \in 1..Len(str) :
                      str[j] = c /\ \A h \in 1..(j - 1) : str[h] # c
         IN  SubSeq(str, 1, i - 1)

\* str.rstrip("/")
RECURSIVE RStripSlash(_)
RStripSlash(str) ==
    IF str # <<>> /\ str[Len(str)] = "/"
    THEN RStripSlash(SubSeq(str, 1, Len(str) - 1))
    ELSE str

\* str.split(sep)[-1]
AfterLast(str, sep) ==
    LET hits == {i \in 1..(Len(str) - Len(sep) + 1) :
                    SubSeq(str, i, i + Len(sep) - 1) = sep}
    IN  IF hits = {} THEN str
        ELSE LET i == CHOOSE j \in hits : \A h \in hits : h <= j
             IN  SubSeq(str, i + Len(sep), Len(str))

\* url.split("#")[0].split("?")[0].rstrip("/"), lines 144 and 157
Cleaned(u) == RStripSlash(BeforeFirst(BeforeFirst(u, "#"), "?"))

\* extract_hf_id, lines 132-150: << >> for None, << id >> for an id
extract_hf_id(u) ==
    IF u = <<>> \/ ~Contains(u, HubHost) THEN <<>>
    ELSE LET cleaned == Cleaned(u)
         IN  IF Contains(cleaned, <<"/", "d", "a", "t", "a", "s", "e", "t", "s", "/">>)
             THEN << AfterLast(cleaned, <<"/", "d", "a", "t", "a", "s", "e", "t", "s", "/">>) >>
             ELSE LET parts == AfterLast(cleaned, <<"h", "u", "g", "g", "i", "n", "g", "f", "a", "c", "e", ".", "c", "o", "/">>)
                  IN  IF parts = <<>> THEN <<>> ELSE << parts >>

\* extract_github_repo, lines 153-166: << >> for None, << owner/repo >>
extract_github_repo(u) ==
    IF u = <<>> \/ ~Contains(u, GithubHost) THEN <<>>
    ELSE LET path == AfterLast(Cleaned(u), <<"g", "i", "t", "h", "u", "b", ".", "c", "o", "m", "/">>)
             parts == SelectSeq(Split(path), LAMBDA p : p # <<>>)
         IN  IF Len(parts) >= 2 THEN << parts[1] \o <<"/">> \o parts[2] >>
             ELSE <<>>

\* get_api_url, lines 169-193: << >> for None
get_api_url(u) ==
    LET kind == classify_url(Str(u))
    IN  IF kind = MODEL
        THEN LET hf_id == extract_hf_id(u)
             IN  IF hf_id # <<>> /\ hf_id[1] # <<>>
                 THEN << <<"h", "t", "t", "p", "s", ":", "/", "/", "h", "u", "g", "g", "i", "n", "g", "f", "a", "c", "e", ".", "c", "o", "/", "a", "p", "i", "/", "m", "o", "d", "e", "l", "s", "/">> \o hf_id[1] >>
                 ELSE <<>>
        ELSE IF kind = DATABASE
        THEN LET ds_id == extract_hf_id(u)
             IN  IF ds_id # <<>> /\ ds_id[1] # <<>>
                 THEN << <<"h", "t", "t", "p", "s", ":", "/", "/", "h", "u", "g", "g", "i", "n", "g", "f", "a", "c", "e", ".", "c", "o", "/", "a", "p", "i", "/", "d", "a", "t", "a", "s", "e", "t", "s", "/">> \o ds_id[1] >>
                 ELSE <<>>
        ELSE IF kind = CODE
        THEN LET repo == extract_github_repo(u)
             IN  IF repo # <<>>
                 THEN << <<"h", "t", "t", "p", "s", ":", "/", "/", "a", "p", "i", ".", "g", "i", "t", "h", "u", "b", ".", "c", "o", "m", "/", "r", "e", "p", "o", "s", "/">> \o repo[1] >>
                 ELSE <<>>
        ELSE <<>>

\* get_raw_readme_url, lines 196-219, for a code-host URL: << >> for None
get_raw_readme_url(u) ==
    LET repo == extract_github_repo(u)
    IN  IF classify_url(Str(u)) = CODE /\ repo # <<>>
        THEN << <<"h", "t", "t", "p", "s", ":", "/", "/", "r", "a", "w", ".", "g", "i", "t", "h", "u", "b", "u", "s", "e", "r", "c", "o", "n", "t", "e", "n", "t", ".", "c", "o", "m", "/">> \o repo[1] \o <<"/", "m", "a", "i", "n", "/", "R", "E", "A", "D", "M", "E", ".", "m", "d">> >>
        ELSE <<>>

----------------------------------------------------------------------------
(* fetch_metadata, src/cli/url_handler.py lines 450-676 *)

Num(n) == [t |-> "num", n |-> n]

List(l) == [t |-> "list", l |-> l]

Dict(d) == [t |-> "dict", d |-> d]

\* How a request ends: answered 200 with a body, no answer, answered with
\* another status, answered 200 with a body that is not JSON
Outcomes == {"ok", "timeout", "non200", "badjson"}

\* lines 638-650: the identifiers of the commits of the list, in order: the
\* login, else the author name, else the author email, of each commit that
\* has one.  A commit is [login, name, email], << >> for a missing value.
RECURSIVE CommitIdentifiers(_)
CommitIdentifiers(commits) ==
    IF commits = <<>> THEN <<>>
    ELSE LET c == Head(commits)
             one == IF c.login # <<>> THEN << c.login >>
                    ELSE IF c.name # <<>> THEN << c.name >>
                    ELSE IF c.email # <<>> THEN << c.email >>
                    ELSE <<>>
         IN  one \o CommitIdentifiers(Tail(commits))

\* lines 653-659, and bus_factor_metric.py lines 89-95: the stripped
\* identifiers, each kept once, in first-seen order
RECURSIVE UniqueStripped(_, _)
UniqueStripped(authors, seen) ==
    IF authors = <<>> THEN <<>>
    ELSE LET k == Strip(Head(authors))
         IN  IF k # <<>> /\ k \notin seen
             THEN << k >> \o UniqueStripped(Tail(authors), seen \cup {k})
             ELSE UniqueStripped(Tail(authors), seen)

\* lines 503-518: model_size_mb, in hundredths of a megabyte
RECURSIVE SiblingBytes(_)
SiblingBytes(siblings) ==
    IF siblings = <<>> THEN 0
    ELSE (IF "size" \in DOMAIN Head(siblings) THEN Head(siblings)["size"] ELSE 0)
         + SiblingBytes(Tail(siblings))

ModelSizeMb(md) ==
    LET used == Get(md, "usedStorage", None)
        sib == Get(md, "siblings", None)
        size_bytes == IF used.t = "num" THEN used.n
                      ELSE IF sib.t = "list" THEN SiblingBytes(sib.l)
                      ELSE 0
    IN  IF size_bytes > 0 THEN Num(Round2(size_bytes, 1024 * 1024)) ELSE Num(0)

\* line 537-538: the first tag that starts with 'license:' in any case, << >>
\* when there is none; the license is the stripped text after the colon
RECURSIVE FirstLicenseTag(_)
FirstLicenseTag(tags) ==
    IF tags = <<>> THEN <<>>
    ELSE IF StartsWith(Lower(Head(tags)), <<"l", "i", "c", "e", "n", "s", "e", ":">>)
    THEN << Strip(SubSeq(Head(tags), 9, Len(Head(tags)))) >>
    ELSE FirstLicenseTag(Tail(tags))

\* lines 520-542: the record after the license heuristics
ResolveLicense(md) ==
    LET lic == Get(md, "license", None)
        card_data == Get(md, "cardData", None)
        tags == Get(md, "tags", None)
    IN  IF lic.t = "str" /\ lic.s # <<>> THEN ("license" :> lic) @@ md
        ELSE IF card_data.t = "dict" /\ "license" \in DOMAIN card_data.d
        THEN ("license" :> card_data.d["license"]) @@ md
        ELSE IF tags.t = "list" /\ FirstLicenseTag(tags.l) # <<>>
        THEN ("license" :> Str(FirstLicenseTag(tags.l)[1])) @@ md
        ELSE md

\* lines 545-556
default_map ==
    [description |-> Str(<<>>), downloads |-> Num(0), likes |-> Num(0),
     tags |-> List(<<>>), cardData |-> Dict(EmptyDict), siblings |-> List(<<>>),
     widgetData |-> List(<<>>), transformersInfo |-> Dict(EmptyDict)]

SetDefaults(md) == md @@ default_map

\* not meta.get("code_url")
NoCodeUrl(md) ==
    LET c == Get(md, "code_url", None)
    IN  c.t = "none" \/ (c.t = "str" /\ c.s = <<>>)

\* lines 571-575: the first tag that contains github.com
RECURSIVE FirstGithubTag(_)
FirstGithubTag(tags) ==
    IF tags = <<>> THEN <<>>
    ELSE IF Contains(Head(tags), GithubHost) THEN << Head(tags) >>
    ELSE FirstGithubTag(Tail(tags))

\* lines 558-577: code_url from cardData or the tags
InferCodeUrl(md) ==
    LET card_data == Get(md, "cardData", Dict(EmptyDict))
        github == IF card_data.t = "dict" THEN Get(card_data.d, "github", None) ELSE None
        repos == IF card_data.t = "dict" THEN Get(card_data.d, "repositories", None) ELSE None
        tags == Get(md, "tags", None)
        m1 == IF ~NoCodeUrl(md) THEN md
              ELSE IF github.t = "str" THEN ("code_url" :> github) @@ md
              ELSE IF repos.t = "list" /\ repos.l # <<>>
              THEN ("code_url" :> Str(repos.l[1])) @@ md
              ELSE md
    IN  IF NoCodeUrl(m1) /\ tags.t = "list" /\ FirstGithubTag(tags.l) # <<>>
        THEN ("code_url" :> Str(FirstGithubTag(tags.l)[1])) @@ m1
        ELSE m1

\* The state of a fetch_metadata call between its steps: whether an exception
\* has left the function, the record built so far, the requests sent so far
Started(meta) == [raised |-> FALSE, meta |-> meta, reqs |-> {}]

Sent(st, req) == [st EXCEPT !.reqs = @ \cup {req}]

\* lines 488-496: the hub record merged into meta; every failure of the
\* request is caught at line 495
HubStep(st, u, net) ==
    IF get_api_url(u) = <<>> THEN st
    ELSE IF net.hub = "ok" /\ net.hub_json.t = "dict"
    THEN [Sent(st, "hub") EXCEPT !.meta = net.hub_json.d @@ @]
    ELSE Sent(st, "hub")

\* lines 579-590: the README looked up for a repository link only while no
\* code_url is known.  net.hf_readme is "fail" (no README could be fetched),
\* "nolink" or "link".
ReadmeLink == <<"h", "t", "t", "p", "s", ":", "/", "/", "g", "i", "t", "h", "u", "b", ".", "c", "o", "m", "/", "o", "/", "r">>

ScrapeStep(st, net) ==
    IF ~NoCodeUrl(st.meta) THEN st
    ELSE IF net.hf_readme = "link"
    THEN [Sent(st, "hf_readme") EXCEPT !.meta = ("code_url" :> Str(ReadmeLink)) @@ @]
    ELSE Sent(st, "hf_readme")

\* lines 498-590, kind MODEL only
AugmentModel(st, net) ==
    LET m1 == ("model_size_mb" :> ModelSizeMb(st.meta)) @@ st.meta
        m2 == InferCodeUrl(SetDefaults(ResolveLicense(m1)))
    IN  ScrapeStep([st EXCEPT !.meta = m2], net)

NOASSERTION == <<"N", "O", "A", "S", "S", "E", "R", "T", "I", "O", "N">>

\* lines 609-620 with the try of line 611 removed
RepoApiStepUnguarded(st, net) ==
    IF net.repo_api \in {"timeout", "badjson"}
    THEN [Sent(st, "repo_api") EXCEPT !.raised = TRUE]
    ELSE IF net.repo_api = "non200" THEN Sent(st, "repo_api")
    ELSE LET js == net.repo_json
             m1 == ("repo_api" :> js) @@ st.meta
             lic == IF js.t = "dict" THEN Get(js.d, "license", Dict(EmptyDict)) ELSE None
             spdx == IF lic.t = "dict" THEN Get(lic.d, "spdx_id", None) ELSE None
         IN  IF js.t # "dict" \/ lic.t # "dict"
             THEN [Sent(st, "repo_api") EXCEPT !.raised = TRUE]
             ELSE IF spdx.t = "str" /\ spdx.s # <<>> /\ spdx.s # NOASSERTION
             THEN [Sent(st, "repo_api") EXCEPT !.meta = ("license" :> spdx) @@ m1]
             ELSE [Sent(st, "repo_api") EXCEPT !.meta = m1]

\* lines 609-620: the repository record and its license; a failed request,
\* a body that is not JSON, a body that is not a mapping and a null license
\* all end in the except of line 619, after repo_api was stored if it was
RepoApiStep(st, net) ==
    IF net.repo_api # "ok" THEN Sent(st, "repo_api")
    ELSE LET js == net.repo_json
             m1 == ("repo_api" :> js) @@ st.meta
             lic == IF js.t = "dict" THEN Get(js.d, "license", Dict(EmptyDict)) ELSE None
             spdx == IF lic.t = "dict" THEN Get(lic.d, "spdx_id", None) ELSE None
         IN  IF spdx.t = "str" /\ spdx.s # <<>> /\ spdx.s # NOASSERTION
             THEN [Sent(st, "repo_api") EXCEPT !.meta = ("license" :> spdx) @@ m1]
             ELSE [Sent(st, "repo_api") EXCEPT !.meta = m1]

ReadmeText == <<"#", " ", "r">>

\* lines 622-629
ReadmeStep(st, u, net) ==
    IF st.raised \/ get_raw_readme_url(u) = <<>> THEN st
    ELSE IF net.readme = "ok"
    THEN [Sent(st, "readme") EXCEPT !.meta = ("readme" :> Str(ReadmeText)) @@ @]
    ELSE Sent(st, "readme")

\* lines 631-662: commit_authors from the commit list; nothing is stored when
\* the request fails, the body is not a list of commits or no commit has an
\* identifier
CommitsStep(st, net) ==
    IF st.raised THEN st
    ELSE IF net.commits = "ok" /\ net.commits_json.t = "list"
                          /\ CommitIdentifiers(net.commits_json.l) # <<>>
    THEN [Sent(st, "commits") EXCEPT !.meta =
             ("commit_authors" :>
                 List(UniqueStripped(CommitIdentifiers(net.commits_json.l), {}))) @@ @]
    ELSE Sent(st, "commits")

\* lines 664-674
TreeStep(st, net) ==
    IF st.raised THEN st
    ELSE IF net.tree = "ok" /\ net.tree_json.t = "dict"
    THEN [Sent(st, "tree") EXCEPT !.meta =
             ("repo_tree" :> Get(net.tree_json.d, "tree", List(<<>>))) @@ @]
    ELSE Sent(st, "tree")

\* line 606: the options that ask for a request to the repository API
StepIf(asked, step) == IF asked THEN step ELSE "skip"

\* lines 609-674: the step named, or none of it; an exception that left
\* the function lets no later step run
CodeStep(st, step, u, net) ==
    IF st.raised THEN st
    ELSE CASE step = "repo_api" -> RepoApiStep(st, net)
           [] step = "readme" -> ReadmeStep(st, u, net)
           [] step = "commits" -> CommitsStep(st, net)
           [] step = "tree" -> TreeStep(st, net)
           [] step = "skip" -> st

RECURSIVE CodeSteps(_, _, _, _)
CodeSteps(st, steps, u, net) ==
    IF steps = <<>> THEN st
    ELSE CodeSteps(CodeStep(st, Head(steps), u, net), Tail(steps), u, net)

\* lines 592-674, kind CODE only
FetchCode(st, u, net, include_repo_tree, include_commits) ==
    IF extract_github_repo(u) = <<>> THEN st
    ELSE CodeSteps([st EXCEPT !.meta = ("repo" :> Str(extract_github_repo(u)[1])) @@ @],
                   << StepIf(get_api_url(u) # <<>>, "repo_api"),
                      "readme",
                      StepIf(include_commits /\ get_api_url(u) # <<>>, "commits"),
                      StepIf(include_repo_tree /\ get_api_url(u) # <<>>, "tree") >>,
                   u, net)

\* lines 474-475 returning a copy completed with the url key
PassThroughWithUrl(d) == Started(d @@ ("url" :> Str(<<>>)))

\* lines 474-475: a dict is returned as it is
PassThrough(d) == Started(d)

\* lines 482-674: the record of a URL of the kind given
FetchKind(u, kind, include_repo_tree, include_commits, net) ==
    IF kind = MODEL
    THEN AugmentModel(HubStep(Started(("kind" :> Str(kind)) @@ ("url" :> Str(u))), u, net), net)
    ELSE IF kind = DATABASE
    THEN HubStep(Started(("kind" :> Str(kind)) @@ ("url" :> Str(u))), u, net)
    ELSE IF kind = CODE
    THEN FetchCode(Started(("kind" :> Str(kind)) @@ ("url" :> Str(u))), u, net,
                   include_repo_tree, include_commits)
    ELSE Started(("kind" :> Str(kind)) @@ ("url" :> Str(u)))

\* lines 477-674, of the stripped URL
FetchUrl(u, include_repo_tree, include_commits, net) ==
    IF u = <<>> THEN Started(("url" :> Str(u)))
    ELSE FetchKind(u, classify_url(Str(u)), include_repo_tree, include_commits, net)

\* fetch_metadata, lines 450-676, of the Python value x: a str, None or a dict
fetch_metadata(x, include_repo_tree, include_commits, net) ==
    IF x.t = "dict" THEN PassThrough(x.d)
    ELSE FetchUrl(IF x.t = "str" THEN Strip(x.s) ELSE <<>>,
                  include_repo_tree, include_commits, net)

----------------------------------------------------------------------------
(* Calls of the URL helpers *)

\* The values classified: URLs of each class in lower and upper case, one
\* with a hub marker and a code host, one without an owner/repo path, one
\* with a query, strings that are not URLs, and values that are not strings
HubModelUrls ==
    {<<"h", "t", "t", "p", "s", ":", "/", "/", "h", "u", "g", "g", "i", "n", "g", "f", "a", "c", "e", ".", "c", "o", "/", "o", "/", "m">>, <<"h", "t", "t", "p", "s", ":", "/", "/", "H", "u", "g", "g", "i", "n", "g", "F", "a", "c", "e", ".", "c", "o", "/", "o", "/", "m">>,
     <<" ", "h", "t", "t", "p", "s", ":", "/", "/", "h", "u", "g", "g", "i", "n", "g", "f", "a", "c", "e", ".", "c", "o", "/", "o", "/", "g", "i", "t", "h", "u", "b", ".", "c", "o", "m", " ">>}

HubDatasetUrls ==
    {<<"h", "t", "t", "p", "s", ":", "/", "/", "h", "u", "g", "g", "i", "n", "g", "f", "a", "c", "e", ".", "c", "o", "/", "d", "a", "t", "a", "s", "e", "t", "s", "/", "o", "/", "d">>, <<"H", "T", "T", "P", "S", ":", "/", "/", "H", "U", "G", "G", "I", "N", "G", "F", "A", "C", "E", ".", "C", "O", "/", "D", "A", "T", "A", "S", "E", "T", "S", "/", "D">>,
     <<"h", "t", "t", "p", "s", ":", "/", "/", "g", "i", "t", "h", "u", "b", ".", "c", "o", "m", "/", "h", "u", "g", "g", "i", "n", "g", "f", "a", "c", "e", ".", "c", "o", "/", "d", "a", "t", "a", "s", "e", "t", "s">>}

CodeUrls ==
    {<<"h", "t", "t", "p", "s", ":", "/", "/", "g", "i", "t", "h", "u", "b", ".", "c", "o", "m", "/", "o", "/", "r">>, <<"h", "t", "t", "p", "s", ":", "/", "/", "g", "i", "t", "h", "u", "b", ".", "c", "o", "m", "/", "o", "/", "r", "/", "t", "r", "e", "e", "/", "m", "a", "i", "n", "?", "x", "=", "1", "#", "t", "o", "p">>,
     <<"h", "t", "t", "p", "s", ":", "/", "/", "g", "i", "t", "h", "u", "b", ".", "c", "o", "m", "/", "o">>, <<"h", "t", "t", "p", "s", ":", "/", "/", "g", "i", "t", "l", "a", "b", ".", "c", "o", "m", "/", "o", "/", "r">>, <<"h", "t", "t", "p", "s", ":", "/", "/", "G", "i", "t", "H", "u", "b", ".", "c", "o", "m", "/", "o", "/", "r">>}

OtherUrls == {<<"n", "o", "t", "-", "a", "-", "u", "r", "l">>, <<"h", "t", "t", "p", "s", ":", "/", "/", "e", "x", "a", "m", "p", "l", "e", ".", "c", "o", "m", "/", "x">>, <<" ", " ">>, <<>>}

UrlValues ==
    {Str(u) : u \in HubModelUrls \cup HubDatasetUrls \cup CodeUrls \cup OtherUrls}
    \cup {None, Num(0), Num(5), List(<<>>), Dict(EmptyDict)}

\* A key of a mapping when the option holds a value
Opt(key, o) == IF o = <<>> THEN EmptyDict ELSE (key :> o[1])

\* What the hub may answer for a model or dataset: the three places a
\* license may be in, each absent, empty, of another type or holding a license
LicenseFields ==
    {<<>>, << Str(<<"m", "i", "t">>) >>, << Str(<<>>) >>, << List(<< <<"m", "i", "t">> >>) >>, << None >>}

CardDatas ==
    {<<>>, << Dict(EmptyDict) >>, << Dict(("license" :> Str(<<"a", "p", "a", "c", "h", "e", "-", "2", ".", "0">>))) >>,
     << Dict(("license" :> None)) >>,
     << Dict(("github" :> Str(<<"h", "t", "t", "p", "s", ":", "/", "/", "g", "i", "t", "h", "u", "b", ".", "c", "o", "m", "/", "c", "/", "d">>))) >>}

TagLists ==
    {<<>>, << List(<<>>) >>, << List(<< <<"l", "i", "c", "e", "n", "s", "e", ":", "g", "p", "l", "-", "3", ".", "0">> >>) >>,
     << List(<< <<"n", "l", "p">>, <<"L", "i", "c", "e", "n", "s", "e", ":", " ", "M", "I", "T", " ">>, <<"l", "i", "c", "e", "n", "s", "e", ":", "i", "s", "c">> >>) >>,
     << List(<< <<"l", "i", "c", "e", "n", "s", "e", ":">> , <<"g", "i", "t", "h", "u", "b", ".", "c", "o", "m", "/", "t", "/", "u">> >>) >>}

HubRecords ==
    {Opt("license", l) @@ Opt("cardData", c) @@ Opt("tags", t) :
        l \in LicenseFields, c \in CardDatas, t \in TagLists}
    \cup {("usedStorage" :> Num(5 * 1024 * 1024)) @@ ("downloads" :> Num(200000)),
          ("siblings" :> List(<< ("size" :> 1024 * 1024), ("size" :> 512 * 1024) , EmptyDict >>)),
          ("cardData" :> Dict(("repositories" :> List(<< <<"h", "t", "t", "p", "s", ":", "/", "/", "g", "i", "t", "h", "u", "b", ".", "c", "o", "m", "/", "p", "/", "q">> >>)))),
          ("code_url" :> Str(<<"h", "t", "t", "p", "s", ":", "/", "/", "g", "i", "t", "h", "u", "b", ".", "c", "o", "m", "/", "k", "/", "l">>))}

HubWorlds ==
    {[hub |-> "ok", hub_json |-> Dict(r), hf_readme |-> "nolink"] : r \in HubRecords}
    \cup [hub : Outcomes,
          hub_json : {Dict(("license" :> Str(<<"m", "i", "t">>))), List(<<>>)},
          hf_readme : {"fail", "nolink", "link"}]

\* What the code host may answer
RepoJsons ==
    {Dict(EmptyDict), Dict(("license" :> None)),
     Dict(("license" :> Dict(("spdx_id" :> Str(<<"M", "I", "T">>))))),
     Dict(("license" :> Dict(("spdx_id" :> Str(NOASSERTION))))),
     List(<<>>)}

CommitShapes ==
    {[login |-> <<"a">>, name |-> <<"x">>, email |-> <<"y">>],
     [login |-> <<>>, name |-> <<"a">>, email |-> <<"e">>],
     [login |-> <<>>, name |-> <<" ", "a">>, email |-> <<>>],
     [login |-> <<>>, name |-> <<>>, email |-> <<"e">>],
     [login |-> <<"b">>, name |-> <<>>, email |-> <<>>],
     [login |-> <<>>, name |-> <<>>, email |-> <<>>]}

\* bound: the number of commits of a commit list
MaxCommits == 3

CommitLists == UNION {[1..n -> CommitShapes] : n \in 0..MaxCommits}

TreeJsons == {Dict(("tree" :> List(<< <<"R", "E", "A", "D", "M", "E", ".", "m", "d">> >>))), Dict(EmptyDict), List(<<>>)}

DefaultCode ==
    [repo_api |-> "ok", repo_json |-> Dict(("license" :> Dict(("spdx_id" :> Str(<<"M", "I", "T">>))))),
     readme |-> "ok",
     commits |-> "ok", commits_json |-> List(<< [login |-> <<"a">>, name |-> <<>>, email |-> <<>>] >>),
     tree |-> "ok", tree_json |-> Dict(("tree" :> List(<< <<"R", "E", "A", "D", "M", "E", ".", "m", "d">> >>)))]

CodeWorlds ==
    {[DefaultCode EXCEPT !.repo_api = a, !.readme = r, !.commits = c, !.tree = t] :
        a \in Outcomes, r \in {"ok", "timeout", "non200"}, c \in Outcomes, t \in Outcomes}
    \cup {[DefaultCode EXCEPT !.repo_json = j] : j \in RepoJsons}
    \cup {[DefaultCode EXCEPT !.commits_json = Dict(EmptyDict)]}
    \cup {[DefaultCode EXCEPT !.tree_json = j] : j \in TreeJsons}

\* The commit lists the code host may answer with
CommitWorlds == {[DefaultCode EXCEPT !.commits_json = List(l)] : l \in CommitLists}

\* Pre-resolved records given to fetch_metadata
DictSamples ==
    {EmptyDict, ("url" :> Str(<<"h", "t", "t", "p", "s", ":", "/", "/", "g", "i", "t", "h", "u", "b", ".", "c", "o", "m", "/", "o", "/", "r">>)),
     ("license" :> Str(<<"m", "i", "t">>)) @@ ("model_size_mb" :> Num(4000)),
     ("kind" :> Str(MODEL)) @@ ("tags" :> List(<<>>))}

NoNet == [hub |-> "timeout"]

FetchCall(x, tree, commits, net, prev) ==
    \E r \in {fetch_metadata(x, tree, commits, net)} :
        call' = [op |-> "fetch_metadata", x |-> x, include_repo_tree |-> tree,
                 include_commits |-> commits, net |-> net, raised |-> r.raised,
                 ret |-> r.meta, reqs |-> r.reqs, prev |-> prev]

DoClassifyUrl ==
    \E x \in UrlValues :
        /\ call.op = "none"
        /\ call' = [op |-> "classify_url", x |-> x, ret |-> classify_url(x)]
        /\ UNCHANGED << perf_metric, bus_metric >>

DoFetchDict ==
    \E d \in DictSamples, tree \in BOOLEAN, commits \in BOOLEAN :
        /\ call.op = "none"
        /\ FetchCall(Dict(d), tree, commits, NoNet, <<>>)
        /\ UNCHANGED << perf_metric, bus_metric >>

DoFetchHub ==
    \E u \in HubModelUrls \cup HubDatasetUrls, net \in HubWorlds :
        /\ call.op = "none"
        /\ FetchCall(Str(u), FALSE, FALSE, net, <<>>)
        /\ UNCHANGED << perf_metric, bus_metric >>

DoFetchCode ==
    \E u \in CodeUrls, net \in CodeWorlds, tree \in BOOLEAN, commits \in BOOLEAN :
        /\ call.op = "none"
        /\ FetchCall(Str(u), tree, commits, net, <<>>)
        /\ UNCHANGED << perf_metric, bus_metric >>

\* fetch_metadata of a repository URL with include_commits, for every
\* commit list
DoFetchCommits ==
    \E net \in CommitWorlds, tree \in BOOLEAN :
        /\ call.op = "none"
        /\ FetchCall(Str(ReadmeLink), tree, TRUE, net, <<>>)
        /\ UNCHANGED << perf_metric, bus_metric >>

DoFetchOther ==
    \E x \in {Str(u) : u \in OtherUrls} \cup {None}, tree \in BOOLEAN, commits \in BOOLEAN :
        /\ call.op = "none"
        /\ FetchCall(x, tree, commits, NoNet, <<>>)
        /\ UNCHANGED << perf_metric, bus_metric >>

\* fetch_metadata applied to the record a first call returned
DoFetchAgain ==
    /\ call.op = "fetch_metadata"
    /\ call.prev = <<>>
    /\ ~call.raised
    /\ FetchCall(Dict(call.ret), ~call.include_repo_tree, ~call.include_commits,
                 call.net, << call.ret >>)
    /\ UNCHANGED << perf_metric, bus_metric >>

UrlNext ==
    /\ \/ DoClassifyUrl
       \/ DoFetchDict
       \/ DoFetchHub
       \/ DoFetchCode
       \/ DoFetchCommits
       \/ DoFetchOther
       \/ DoFetchAgain
    /\ UNCHANGED << sizeVars, rampupVars, licenseVars, processVars, laterVars >>

InitUrl == SizeInit /\ RampUpInit /\ LicenseInit /\ ProcessIdle /\ CallIdle

SpecUrl == InitUrl /\ [][UrlNext]_vars


----------------------------------------------------------------------------
(* Calls of PerformanceClaimsMetric *)

\* The largest number of results of a model-index entry
MaxResults == 2

\* The download and like counts on both sides of each tier of lines 66-73
DownloadCounts == {0, 100, 101, 1001, 10001, 100001}
LikeCounts == {0, 5, 6, 11, 101, 501}

\* The categories get_data hands to calculate_score
PerformanceCategories == {"MODEL", "DATASET", "UNKNOWN"}

\* The data get_data returns, lines 18-25
PerformanceData ==
    [model_index : BOOLEAN, results : 0..MaxResults, perf_tag : BOOLEAN,
     card_model_index : BOOLEAN, downloads : DownloadCounts, likes : LikeCounts,
     category : PerformanceCategories]

\* Records passed to calculate as a dict (line 85): the one of
\* test_performance_claims_score_basics, one with no signal, and ones
\* without a category or without metadata
PerformanceDicts ==
    {("metadata" :> (("model_index" :> TRUE) @@ ("results" :> 1) @@ ("perf_tag" :> TRUE)))
        @@ ("category" :> "MODEL"),
     ("metadata" :> EmptyDict) @@ ("category" :> "MODEL"),
     ("metadata" :> ("downloads" :> 200000)),
     ("category" :> "DATASET"),
     EmptyDict}

\* calculate_score(data), lines 29-79, called on the metric object
PerformanceDoCalculateScore ==
    \E data \in PerformanceData :
        /\ call.op = "none"
        /\ perf_metric' = [perf_metric EXCEPT !.score = PerformanceClaimsCalculateScore(data)]
        /\ call' = [op |-> "calculate_score", data |-> data]
        /\ UNCHANGED bus_metric

\* calculate(url) with a dict, lines 84-85 and 90-91
PerformanceDoCalculateDict ==
    \E parsed_data \in PerformanceDicts :
        LET r == PerformanceClaimsCalculate(parsed_data, FALSE)
        IN  /\ call.op = "none"
            /\ perf_metric' = [perf_metric EXCEPT !.score = r.score]
            /\ call' = [op |-> "calculate", x |-> Dict(parsed_data), ret |-> r.ret]
            /\ UNCHANGED bus_metric

\* calculate(url) with a URL string, lines 86-91: the record is the one
\* fetch_metadata builds (line 88); an exception gives score 0.0 (line 93)
PerformanceDoCalculateUrl ==
    /\ call.op = "none"
    /\ \E u \in HubModelUrls \cup HubDatasetUrls, net \in HubWorlds :
      \E f \in {fetch_metadata(Str(u), FALSE, FALSE, net)} :
        \E r \in {PerformanceClaimsCalculate(f.meta, f.raised)} :
            /\ perf_metric' = [perf_metric EXCEPT !.score = r.score]
            /\ call' = [op |-> "calculate", x |-> Str(u), net |-> net,
                        parsed_data |-> f.meta, ret |-> r.ret]
            /\ UNCHANGED bus_metric

PerformanceNext ==
    /\ \/ PerformanceDoCalculateScore
       \/ PerformanceDoCalculateDict
       \/ PerformanceDoCalculateUrl
    /\ UNCHANGED << sizeVars, rampupVars, licenseVars, processVars, laterVars >>

InitPerformanceClaims == SizeInit /\ RampUpInit /\ LicenseInit /\ ProcessIdle /\ CallIdle

SpecPerformanceClaims == InitPerformanceClaims /\ [][PerformanceNext]_vars


----------------------------------------------------------------------------
(* BusFactorMetric: src/cli/Metric_tobedeleted/bus_factor_metric.py *)

\* The characters of [A-Za-z0-9_.-], line 31
RepoPathChars ==
    {UpperChars[i] : i \in 1..Len(UpperChars)} \cup {LowerChars[i] : i \in 1..Len(LowerChars)}
    \cup {"0", "1", "2", "3", "4", "5", "6", "7", "8", "9", "_", ".", "-"}

\* The length of the longest run of such characters from position i
RECURSIVE RepoPathRun(_, _)
RepoPathRun(str, i) ==
    IF i <= Len(str) /\ str[i] \in RepoPathChars THEN 1 + RepoPathRun(str, i + 1) ELSE 0

\* _extract_repo_path, lines 28-35: << >> for None, << path >> for the
\* leftmost owner/name after "github.com/"
BusExtractRepoPath(link) ==
    IF link = <<>> \/ ~Contains(link, GithubHost) THEN <<>>
    ELSE LET u == Cleaned(link)
             prefix == GithubHost \o <<"/">>
             p == Len(prefix)
             owner(i) == RepoPathRun(u, i + p)
             name(i) == RepoPathRun(u, i + p + owner(i) + 1)
             hits == {i \in 1..Len(u) :
                        /\ i + p - 1 <= Len(u)
                        /\ SubSeq(u, i, i + p - 1) = prefix
                        /\ owner(i) >= 1
                        /\ i + p + owner(i) <= Len(u)
                        /\ u[i + p + owner(i)] = "/"
                        /\ name(i) >= 1}
         IN  IF hits = {} THEN <<>>
             ELSE LET i == CHOOSE j \in hits : \A h \in hits : j <= h
                  IN  << SubSeq(u, i + p, i + p + owner(i) + name(i)) >>

\* _fetch_commit_authors_from_github, lines 37-67: the identifier of every
\* commit, [] on any failure
BusFetchCommitAuthors(net) ==
    IF net.bus_commits = "ok" /\ net.bus_commits_json.t = "list"
    THEN CommitIdentifiers(net.bus_commits_json.l)
    ELSE <<>>

\* lines 72-77: an entry is kept when it is truthy and was not seen before,
\* as given; what is kept is its stripped form
RECURSIVE BusPreSupplied(_, _)
BusPreSupplied(pre_authors, seen) ==
    IF pre_authors = <<>> THEN <<>>
    ELSE LET a == Head(pre_authors)
         IN  IF a # <<>> /\ a \notin seen
             THEN << Strip(a) >> \o BusPreSupplied(Tail(pre_authors), seen \cup {a})
             ELSE BusPreSupplied(Tail(pre_authors), seen)

Truthy(v) == (v.t = "str" /\ v.s # <<>>) \/ (v.t = "list" /\ v.l # <<>>)
                \/ (v.t = "num" /\ v.n # 0) \/ (v.t = "dict" /\ v.d # EmptyDict)

\* get_data, lines 69-96: the authors and whether the commits were requested
BusFactorGetData(parsed_data, net) ==
    LET pre_authors == Get(parsed_data, "commit_authors", None)
        first == Get(parsed_data, "code_url", None)
        code_url == IF Truthy(first) THEN first ELSE Get(parsed_data, "url", None)
        repo_path == IF code_url.t = "str" THEN BusExtractRepoPath(code_url.s) ELSE <<>>
    IN  IF pre_authors.t = "list" /\ pre_authors.l # <<>>
        THEN [authors |-> BusPreSupplied(pre_authors.l, {}), fetched |-> FALSE]
        ELSE IF repo_path = <<>> THEN [authors |-> <<>>, fetched |-> FALSE]
        ELSE [authors |-> UniqueStripped(BusFetchCommitAuthors(net), {}), fetched |-> TRUE]

\* lines 104-108: len(set(authors)) scored
BusFactorScoreOf(authors, raises) ==
    BusFactorCalculate(Cardinality({authors[i] : i \in 1..Len(authors)}), raises)


\* bound: the length of the short pre-supplied author lists
MaxAuthors == 3

\* Entries of a pre-supplied list: identifiers, one with a leading blank, a
\* blank entry and an empty one
AuthorEntries == {<<"a">>, <<" ", "a">>, <<"b">>, <<" ">>, <<>>}

\* One-letter identifiers, enough of them to pass the 50 of line 107
AuthorLetters == LowerChars \o UpperChars

AuthorLists ==
    UNION {[1..n -> AuthorEntries] : n \in 0..MaxAuthors}
    \cup {<< <<"a", "l", "i", "c", "e">>, <<"b", "o", "b">>, <<"a", "l", "i", "c", "e">> >>}
    \cup {[i \in 1..n |-> << AuthorLetters[i] >>] : n \in {49, 50, 51, 52}}
    \cup {[i \in 1..n |-> << AuthorLetters[((i - 1) % 50) + 1] >>] : n \in {51, 52}}

\* Records given to get_data and calculate: with a commit_authors list, with
\* one that is not a list, and with only a URL
BusRecords ==
    {("commit_authors" :> List(l)) : l \in AuthorLists}
    \cup {("commit_authors" :> List(l)) @@ ("url" :> Str(<<"h", "t", "t", "p", "s", ":", "/", "/", "g", "i", "t", "h", "u", "b", ".", "c", "o", "m", "/", "o", "/", "r">>)) :
            l \in {<<>>, << <<"a">> >>}}
    \cup {("commit_authors" :> Str(<<"a">>)), EmptyDict,
          ("url" :> Str(<<"h", "t", "t", "p", "s", ":", "/", "/", "g", "i", "t", "h", "u", "b", ".", "c", "o", "m", "/", "o", "/", "r">>)),
          ("url" :> Str(<<"h", "t", "t", "p", "s", ":", "/", "/", "g", "i", "t", "h", "u", "b", ".", "c", "o", "m", "/", "o">>)),
          ("code_url" :> Str(<<"h", "t", "t", "p", "s", ":", "/", "/", "g", "i", "t", "h", "u", "b", ".", "c", "o", "m", "/", "p", "/", "q", ".", "g", "i", "t", "#", "m", "a", "i", "n">>)) @@ ("url" :> Str(<<"h", "t", "t", "p", "s", ":", "/", "/", "h", "u", "g", "g", "i", "n", "g", "f", "a", "c", "e", ".", "c", "o", "/", "o", "/", "m">>)),
          ("code_url" :> None) @@ ("url" :> Str(<<"h", "t", "t", "p", "s", ":", "/", "/", "h", "u", "g", "g", "i", "n", "g", "f", "a", "c", "e", ".", "c", "o", "/", "o", "/", "m">>))}

\* What the commits request of line 41 may be answered
BusCommitsWorlds ==
    {[bus_commits |-> o, bus_commits_json |-> List(<< >>)] : o \in Outcomes \ {"ok"}}
    \cup {[bus_commits |-> "ok", bus_commits_json |-> j] :
            j \in {List(<< >>), Dict(EmptyDict),
                   List(<< [login |-> <<" ", "a">>, name |-> <<>>, email |-> <<>>],
                           [login |-> <<>>, name |-> <<"b">>, email |-> <<"e">>],
                           [login |-> <<>>, name |-> <<>>, email |-> <<"a">>] >>)}}

\* The commits request failing, and the answers that matter to a record:
\* none when its commit_authors list is used (line 71)
BusCommitsDown == [bus_commits |-> "timeout", bus_commits_json |-> List(<< >>)]

BusCommitsWorldsFor(parsed_data) ==
    IF Truthy(Get(parsed_data, "commit_authors", None)) /\ parsed_data["commit_authors"].t = "list"
    THEN {BusCommitsDown}
    ELSE BusCommitsWorlds

\* The code host and the hub as calculate(url) meets them
BusWorlds ==
    {[DefaultCode EXCEPT !.commits_json = List(l)] @@ BusCommitsDown : l \in CommitLists}
    \cup {[DefaultCode EXCEPT !.commits = c, !.commits_json = j] @@ b :
            c \in Outcomes, j \in {List(<< >>), Dict(EmptyDict)}, b \in BusCommitsWorlds}

BusHubWorlds ==
    {[hub |-> "ok", hub_json |-> Dict(r), hf_readme |-> "nolink"] @@ b :
        r \in {EmptyDict, ("code_url" :> Str(<<"h", "t", "t", "p", "s", ":", "/", "/", "g", "i", "t", "h", "u", "b", ".", "c", "o", "m", "/", "k", "/", "l">>))},
        b \in BusCommitsWorlds}

\* get_data(parsed_data), lines 69-96
BusDoGetData ==
    \E parsed_data \in BusRecords :
      \E net \in BusCommitsWorldsFor(parsed_data) :
        LET g == BusFactorGetData(parsed_data, net)
        IN  /\ call.op = "none"
            /\ call' = [op |-> "get_data", parsed_data |-> parsed_data, net |-> net,
                        ret |-> g.authors, fetched |-> g.fetched]
            /\ UNCHANGED << perf_metric, bus_metric >>

\* calculate, lines 98-119, of the Python value x
BusCall(x, net) ==
    \E f \in {fetch_metadata(x, FALSE, TRUE, net)} :
      \E g \in {BusFactorGetData(f.meta, net)} :
        \E r \in {BusFactorScoreOf(g.authors, f.raised)} :
        /\ bus_metric' = [bus_metric EXCEPT !.score = r.score]
        /\ call' = [op |-> "calculate", x |-> x, net |-> net, parsed_data |-> f.meta,
                    authors |-> g.authors, fetched |-> g.fetched, ret |-> r.ret,
                    commit_requests |-> (IF "commits" \in f.reqs THEN 1 ELSE 0)
                                        + (IF g.fetched THEN 1 ELSE 0)]
        /\ UNCHANGED perf_metric

\* calculate(url) with a record: fetch_metadata hands it back (line 103)
BusDoCalculateDict ==
    /\ call.op = "none"
    /\ \E parsed_data \in BusRecords :
        \E net \in BusCommitsWorldsFor(parsed_data) : BusCall(Dict(parsed_data), net)

\* calculate(url) with the URL of a code repository
BusDoCalculateCode ==
    /\ call.op = "none"
    /\ \E u \in CodeUrls, net \in BusWorlds : BusCall(Str(u), net)

\* calculate(url) with a hub URL, a string that is no URL, or None
BusDoCalculateOther ==
    /\ call.op = "none"
    /\ \E x \in {Str(u) : u \in HubModelUrls \cup HubDatasetUrls \cup OtherUrls} \cup {None},
          net \in BusHubWorlds : BusCall(x, net)

BusNext ==
    /\ \/ BusDoGetData
       \/ BusDoCalculateDict
       \/ BusDoCalculateCode
       \/ BusDoCalculateOther
    /\ UNCHANGED << sizeVars, rampupVars, licenseVars, processVars, laterVars >>

InitBusFactor == SizeInit /\ RampUpInit /\ LicenseInit /\ ProcessIdle /\ CallIdle

SpecBusFactor == InitBusFactor /\ [][BusNext]_vars


----------------------------------------------------------------------------
(* CodeQualityMetric: src/cli/metrics/code_quality_metric.py *)

\* get_data, lines 106-115, on a lower-cased path
IsTestPath(p) ==
    \/ StartsWith(p, <<"t", "e", "s", "t", "s", "/">>) \/ Contains(p, <<"/", "t", "e", "s", "t", "s", "/">>)
    \/ StartsWith(p, <<"t", "e", "s", "t", "/">>) \/ Contains(p, <<"/", "t", "e", "s", "t", "/">>)
    \/ StartsWith(p, <<"t", "e", "s", "t", "_">>) \/ Contains(p, <<"/", "t", "e", "s", "t", "_">>)
    \/ EndsWith(p, <<"_", "t", "e", "s", "t", ".", "p", "y">>) \/ EndsWith(p, <<"t", "e", "s", "t", ".", "p", "y">>)

\* lines 119-129
IsCiPath(p) ==
    \/ StartsWith(p, <<".", "g", "i", "t", "h", "u", "b", "/", "w", "o", "r", "k", "f", "l", "o", "w", "s">>) \/ EndsWith(p, <<".", "t", "r", "a", "v", "i", "s", ".", "y", "m", "l">>)
    \/ Contains(p, <<".", "c", "i", "r", "c", "l", "e", "c", "i", "/">>) \/ EndsWith(p, <<"a", "z", "u", "r", "e", "-", "p", "i", "p", "e", "l", "i", "n", "e", "s", ".", "y", "m", "l">>)
    \/ EndsWith(p, <<"j", "e", "n", "k", "i", "n", "s", "f", "i", "l", "e">>) \/ StartsWith(p, <<"c", "i", "/">>) \/ Contains(p, <<"/", "c", "i", "/">>)
    \/ p = <<"m", "a", "k", "e", "f", "i", "l", "e">> \/ p = <<"d", "o", "c", "k", "e", "r", "f", "i", "l", "e">>

\* lines 133-145
IsLintPath(p) ==
    \/ p \in {<<".", "f", "l", "a", "k", "e", "8">>, <<"s", "e", "t", "u", "p", ".", "c", "f", "g">>, <<"p", "y", "p", "r", "o", "j", "e", "c", "t", ".", "t", "o", "m", "l">>, <<"t", "o", "x", ".", "i", "n", "i">>, <<".", "p", "y", "l", "i", "n", "t", "r", "c">>}
    \/ EndsWith(p, <<"l", "i", "n", "t", ".", "p", "y">>) \/ EndsWith(p, <<"f", "o", "r", "m", "a", "t", ".", "p", "y">>)

\* lines 149-150
IsReadmePath(p) == StartsWith(p, <<"r", "e", "a", "d", "m", "e">>)

\* lines 153-162
IsPackagingPath(p) ==
    \/ p \in {<<"s", "e", "t", "u", "p", ".", "p", "y">>, <<"p", "y", "p", "r", "o", "j", "e", "c", "t", ".", "t", "o", "m", "l">>, <<"r", "e", "q", "u", "i", "r", "e", "m", "e", "n", "t", "s", ".", "t", "x", "t">>, <<"p", "i", "p", "f", "i", "l", "e">>}
    \/ (StartsWith(p, <<"r", "e", "q", "u", "i", "r", "e", "m", "e", "n", "t", "s">>) /\ EndsWith(p, <<".", "t", "x", "t">>))

\* lines 165-166
IsPythonPath(p) == EndsWith(p, <<".", "p", "y">>)

\* lines 57-64 and 90-97: the data of a record with no repository or no tree
CodeQualityNoData ==
    [has_tests |-> FALSE, has_ci |-> FALSE, has_lint_config |-> FALSE,
     python_file_count |-> 0, has_readme |-> FALSE, has_packaging |-> FALSE]

\* A variant of the scan that keeps the markers of the last entry only
CodeQualityScanLast(tree) ==
    LET p == Lower(tree[Len(tree)])
    IN  [has_tests |-> IsTestPath(p), has_ci |-> IsCiPath(p),
         has_lint_config |-> IsLintPath(p),
         python_file_count |-> IF IsPythonPath(p) THEN 1 ELSE 0,
         has_readme |-> IsReadmePath(p), has_packaging |-> IsPackagingPath(p)]

\* lines 99-175: the loop over a non-empty tree.  An entry is its "path" (the
\* empty string for an entry without one); a marker once seen stays seen and
\* every path ending in .py is counted.
CodeQualityScan(tree) ==
    [has_tests |-> \E i \in 1..Len(tree) : IsTestPath(Lower(tree[i])),
     has_ci |-> \E i \in 1..Len(tree) : IsCiPath(Lower(tree[i])),
     has_lint_config |-> \E i \in 1..Len(tree) : IsLintPath(Lower(tree[i])),
     python_file_count |-> Cardinality({i \in 1..Len(tree) : IsPythonPath(Lower(tree[i]))}),
     has_readme |-> \E i \in 1..Len(tree) : IsReadmePath(Lower(tree[i])),
     has_packaging |-> \E i \in 1..Len(tree) : IsPackagingPath(Lower(tree[i]))]

\* _fetch_repo_tree, lines 33-50: the metric's own request of the tree;
\* None (<< >>) unless the answer is 200 with a JSON object, whose "tree" it
\* returns ([] when the key is missing)
CodeQualityFetchRepoTree(net) ==
    IF net.cq_tree = "ok" /\ net.tree_json.t = "dict"
    THEN << Get(net.tree_json.d, "tree", List(<<>>)) >>
    ELSE <<>>

\* lines 66-79: the repository the record points to, << >> for none:
\* code_url, else url, when it classifies as code or model and names
\* owner/repo on github.com
CodeQualityRepoPath(parsed_data) ==
    LET code_url == Get(parsed_data, "code_url", Str(<<>>))
        repo_url == IF Truthy(code_url) THEN code_url
                    ELSE Get(parsed_data, "url", Str(<<>>))
    IN  IF ~Truthy(repo_url) \/ classify_url(repo_url) \notin {CODE, MODEL} THEN <<>>
        ELSE extract_github_repo(repo_url.s)

\* lines 84-88: the tree get_data reads: the record's repo_tree, else (when
\* that one is missing or empty) the tree the metric fetches itself
CodeQualityTreeOf(parsed_data, net) ==
    LET tree == Get(parsed_data, "repo_tree", None)
    IN  IF Truthy(tree) THEN [tree |-> tree, fetched |-> FALSE]
        ELSE LET own == CodeQualityFetchRepoTree(net)
             IN  [tree |-> IF own = <<>> THEN None ELSE own[1], fetched |-> TRUE]

\* get_data, lines 52-175: [data, fetched]; fetched tells whether the metric
\* requested the tree itself
CodeQualityGetData(parsed_data, net) ==
    IF CodeQualityRepoPath(parsed_data) = <<>>
    THEN [data |-> CodeQualityNoData, fetched |-> FALSE]
    ELSE \* one binding of the tree read
         LET t == CodeQualityTreeOf(parsed_data, net)
         IN  [data |-> IF Truthy(t.tree) THEN CodeQualityScan(t.tree.l)
                       ELSE CodeQualityNoData,
              fetched |-> t.fetched]

\* A variant of the weighted sum that does not cap the file count at 20
CodeQualityQuartersUncapped(data) ==
    4 * ((IF data.has_tests THEN 30 ELSE 0) + (IF data.has_ci THEN 25 ELSE 0)
         + (IF data.has_lint_config THEN 15 ELSE 0))
    + 3 * data.python_file_count
    + (IF data.has_readme /\ data.has_packaging THEN 60
       ELSE IF data.has_readme \/ data.has_packaging THEN 30 ELSE 0)

\* calculate, lines 191-220: the weighted sum, in units of 1/400
CodeQualityQuarters(data) ==
    4 * ((IF data.has_tests THEN 30 ELSE 0) + (IF data.has_ci THEN 25 ELSE 0)
         + (IF data.has_lint_config THEN 15 ELSE 0))
    + 3 * Min(data.python_file_count, 20)
    + (IF data.has_readme /\ data.has_packaging THEN 60
       ELSE IF data.has_readme \/ data.has_packaging THEN 30 ELSE 0)

\* line 229: round(self.score, 2) of a score of quarters/400, in hundredths.
\* The float sum of a score that lies halfway between two hundredths falls on
\* either side of the tie; up tells which.
CodeQualityRound(quarters, up) ==
    IF quarters % 4 = 2 THEN (quarters \div 4) + (IF up THEN 1 ELSE 0)
    ELSE Round2(quarters, 400)


\* lines 182-220, from the record get_data is given: [quarters, data, fetched]
CodeQualityFromData(g) ==
    [quarters |-> Max(0, Min(400, CodeQualityQuarters(g.data))), data |-> g.data,
     fetched |-> g.fetched]

\* calculate, lines 177-229, once the input is resolved to a record; a
\* failure inside leaves the score 0.0 (lines 221-223)
CodeQualityScoreOf(parsed_data, raised, net) ==
    IF raised THEN [quarters |-> 0, data |-> CodeQualityNoData, fetched |-> FALSE]
    ELSE CodeQualityFromData(CodeQualityGetData(parsed_data, net))


----------------------------------------------------------------------------
(* Calls of CodeQualityMetric *)

\* bound: the trees sampled hold up to this many marker paths, besides
\* their source files
MaxTreeMarkers == 1

MarkerPaths ==
    {<<"t", "e", "s", "t", "s", "/", "t", ".", "p", "y">>, <<".", "g", "i", "t", "h", "u", "b", "/", "w", "o", "r", "k", "f", "l", "o", "w", "s", "/", "c", "i", ".", "y", "m", "l">>, <<"M", "a", "k", "e", "f", "i", "l", "e">>, <<"s", "e", "t", "u", "p", ".", "c", "f", "g">>,
     <<"p", "y", "p", "r", "o", "j", "e", "c", "t", ".", "t", "o", "m", "l">>, <<"R", "E", "A", "D", "M", "E", ".", "m", "d">>, <<"r", "e", "q", "u", "i", "r", "e", "m", "e", "n", "t", "s", "-", "d", "e", "v", ".", "t", "x", "t">>}

FullMarkers == << <<"t", "e", "s", "t", "s", "/", "t", ".", "p", "y">>, <<".", "g", "i", "t", "h", "u", "b", "/", "w", "o", "r", "k", "f", "l", "o", "w", "s", "/", "c", "i", ".", "y", "m", "l">>, <<"p", "y", "p", "r", "o", "j", "e", "c", "t", ".", "t", "o", "m", "l">>, <<"R", "E", "A", "D", "M", "E", ".", "m", "d">> >>

\* the numbers of further source files of a tree
FileCounts == {0, 1, 18, 19, 20}

SourceFiles(k) == [i \in 1..k |-> <<"m", ".", "p", "y">>]

MarkerLists == UNION {[1..n -> MarkerPaths] : n \in 0..MaxTreeMarkers} \cup {FullMarkers}

CodeTrees == {ms \o SourceFiles(k) : ms \in MarkerLists, k \in FileCounts}

CodeQualityRepoUrl == Str(<<"h", "t", "t", "p", "s", ":", "/", "/", "g", "i", "t", "h", "u", "b", ".", "c", "o", "m", "/", "o", "/", "r">>)

\* records that carry the tree of their repository
CodeQualityTreeRecords == {("url" :> CodeQualityRepoUrl) @@ ("repo_tree" :> List(t)) : t \in CodeTrees}

\* the upstream of such a record: the tree endpoint answers with the tree
\* of the record, or fails
CodeQualityTreeWorlds(parsed_data) ==
    {[cq_tree |-> o, tree_json |-> Dict(("tree" :> parsed_data["repo_tree"]))] :
        o \in {"ok", "non200"}}

CodeQualityTreeJsons ==
    {Dict(("tree" :> List(t))) : t \in {<<>>, << <<"R", "E", "A", "D", "M", "E", ".", "m", "d">> >>, FullMarkers \o SourceFiles(20)}}
    \cup {Dict(EmptyDict), List(<<>>)}

CodeQualityWorlds ==
    {[DefaultCode EXCEPT !.tree = o1, !.tree_json = j] @@ [cq_tree |-> o2] :
        o1 \in Outcomes, o2 \in Outcomes, j \in CodeQualityTreeJsons}

CodeQualityHubWorlds ==
    {[hub |-> "ok", hub_json |-> Dict(r), hf_readme |-> h] @@ w :
        r \in {EmptyDict, ("code_url" :> CodeQualityRepoUrl)}, h \in {"nolink", "link"},
        w \in {c \in CodeQualityWorlds : c.tree = c.cq_tree}}

\* records without a tree, or pointing to no repository on github.com
CodeQualityOtherRecords ==
    {EmptyDict, ("url" :> CodeQualityRepoUrl),
     ("url" :> Str(<<"h", "t", "t", "p", "s", ":", "/", "/", "h", "u", "g", "g", "i", "n", "g", "f", "a", "c", "e", ".", "c", "o", "/", "o", "/", "m">>)) @@ ("code_url" :> CodeQualityRepoUrl),
     ("url" :> Str(<<"h", "t", "t", "p", "s", ":", "/", "/", "h", "u", "g", "g", "i", "n", "g", "f", "a", "c", "e", ".", "c", "o", "/", "o", "/", "m">>)) @@ ("repo_tree" :> List(FullMarkers)),
     ("url" :> Str(<<"h", "t", "t", "p", "s", ":", "/", "/", "g", "i", "t", "l", "a", "b", ".", "c", "o", "m", "/", "o", "/", "r">>)) @@ ("repo_tree" :> List(FullMarkers)),
     ("url" :> Str(<<"h", "t", "t", "p", "s", ":", "/", "/", "g", "i", "t", "h", "u", "b", ".", "c", "o", "m", "/", "o">>)) @@ ("repo_tree" :> List(FullMarkers)),
     ("url" :> Str(<<"h", "t", "t", "p", "s", ":", "/", "/", "G", "i", "t", "H", "u", "b", ".", "c", "o", "m", "/", "o", "/", "r">>)) @@ ("repo_tree" :> List(FullMarkers)),
     ("url" :> None) @@ ("repo_tree" :> List(FullMarkers)),
     ("code_url" :> Str(<<"n", "o", "t", "-", "a", "-", "u", "r", "l">>)) @@ ("url" :> CodeQualityRepoUrl)}

\* one calculate(x): the record resolved (lines 180-187), the data read and
\* the score left on the object and returned.  tree_requests counts the
\* requests sent to the tree endpoint, by fetch_metadata and by the metric.
CodeQualityCall(x, f, net, ups, prev) ==
    \E g \in {CodeQualityScoreOf(f.meta, f.raised, net)} :
      \E up \in IF g.quarters % 4 = 2 THEN ups ELSE {FALSE} :
        /\ code_quality_metric' = [code_quality_metric EXCEPT !.score = g.quarters]
        /\ call' = [op |-> "code_quality", x |-> x, net |-> net, raised |-> f.raised,
                    parsed_data |-> f.meta, data |-> g.data, up |-> up,
                    score |-> g.quarters,
                    tree_requests |-> (IF "tree" \in f.reqs THEN 1 ELSE 0)
                                      + (IF g.fetched THEN 1 ELSE 0),
                    ret |-> ("code_quality" :> CodeQualityRound(g.quarters, up)),
                    prev |-> prev]
        /\ UNCHANGED << perf_metric, bus_metric, dataset_quality_metric, instances, seen_datasets >>

\* calculate(record) on a record with the tree of its repository
CodeQualityDoCalculateTree ==
    /\ call.op = "none"
    /\ \E parsed_data \in CodeQualityTreeRecords :
         \E net \in CodeQualityTreeWorlds(parsed_data) :
           CodeQualityCall(Dict(parsed_data), PassThrough(parsed_data), net, BOOLEAN, <<>>)

\* lines 198-211: what the component scores are computed from: the markers
\* and the file count up to 20
CodeQualityTerms(data) == [data EXCEPT !.python_file_count = Min(@, 20)]

\* the tree with one more entry, at the front or at the end
Grown(tree, entry, front) == IF front THEN << entry >> \o tree ELSE Append(tree, entry)

\* a second calculate(record), after the repository gained one entry; the
\* same component scores give the same float sum, hence the same side of a tie
CodeQualityDoCalculateGrown ==
    /\ call.op = "code_quality"
    /\ call.prev = <<>>
    /\ call.x.t = "dict"
    /\ "repo_tree" \in DOMAIN call.x.d
    /\ call.x.d \in CodeQualityTreeRecords
    /\ \E entry \in MarkerPaths \cup {<<"m", ".", "p", "y">>, <<"d", "o", "c", "s", "/", "a", ".", "t", "x", "t">>, <<>>}, front \in BOOLEAN :
         \E parsed_data \in {[call.x.d EXCEPT !["repo_tree"] =
                                List(Grown(call.x.d["repo_tree"].l, entry, front))]} :
           CodeQualityCall(Dict(parsed_data), PassThrough(parsed_data),
                           [call.net EXCEPT !.tree_json = Dict(("tree" :> parsed_data["repo_tree"]))],
                           IF CodeQualityTerms(CodeQualityScoreOf(parsed_data, FALSE, call.net).data)
                                = CodeQualityTerms(call.data)
                           THEN {call.up} ELSE BOOLEAN,
                           << call >>)

\* calculate(record) on the other records
CodeQualityDoCalculateRecord ==
    /\ call.op = "none"
    /\ \E parsed_data \in CodeQualityOtherRecords, net \in CodeQualityWorlds :
         CodeQualityCall(Dict(parsed_data), PassThrough(parsed_data), net, BOOLEAN, <<>>)

\* calculate(url): fetch_metadata with include_repo_tree=True (line 185)
CodeQualityDoCalculateUrl ==
    /\ call.op = "none"
    /\ \E u \in CodeUrls, net \in CodeQualityWorlds :
         CodeQualityCall(Str(u), fetch_metadata(Str(u), TRUE, FALSE, net), net, BOOLEAN, <<>>)

\* calculate(url) with a hub URL or a string that is no URL
CodeQualityDoCalculateHub ==
    /\ call.op = "none"
    /\ \E u \in {<<"h", "t", "t", "p", "s", ":", "/", "/", "h", "u", "g", "g", "i", "n", "g", "f", "a", "c", "e", ".", "c", "o", "/", "o", "/", "m">>, <<"h", "t", "t", "p", "s", ":", "/", "/", "h", "u", "g", "g", "i", "n", "g", "f", "a", "c", "e", ".", "c", "o", "/", "d", "a", "t", "a", "s", "e", "t", "s", "/", "o", "/", "d">>, <<"n", "o", "t", "-", "a", "-", "u", "r", "l">>},
          net \in CodeQualityHubWorlds :
         CodeQualityCall(Str(u), fetch_metadata(Str(u), TRUE, FALSE, net), net, BOOLEAN, <<>>)

\* calculate(x) for an x that is neither a string nor a record: the empty
\* record is read (lines 181, 189)
CodeQualityDoCalculateOther ==
    /\ call.op = "none"
    /\ \E x \in {None, Num(5), List(<<>>)}, net \in CodeQualityWorlds :
         CodeQualityCall(x, PassThrough(EmptyDict), net, BOOLEAN, <<>>)

CodeQualityNext ==
    /\ \/ CodeQualityDoCalculateTree
       \/ CodeQualityDoCalculateGrown
       \/ CodeQualityDoCalculateRecord
       \/ CodeQualityDoCalculateUrl
       \/ CodeQualityDoCalculateHub
       \/ CodeQualityDoCalculateOther
    /\ UNCHANGED << sizeVars, rampupVars, licenseVars, processVars >>

InitCodeQuality == SizeInit /\ RampUpInit /\ LicenseInit /\ ProcessIdle /\ CallIdle

SpecCodeQuality == InitCodeQuality /\ [][CodeQualityNext]_vars


----------------------------------------------------------------------------
(* DatasetQualityMetric.calculate_score:
   src/cli/Metric_tobedeleted/dataset_quality_metric.py *)

DigitChars == <<"0", "1", "2", "3", "4", "5", "6", "7", "8", "9">>

IsDigits(str) == \A i \in 1..Len(str) : \E k \in 1..10 : DigitChars[k] = str[i]

\* the number a string of digits writes
RECURSIVE DigitsValue(_)
DigitsValue(str) ==
    IF str = <<>> THEN 0
    ELSE 10 * DigitsValue(SubSeq(str, 1, Len(str) - 1))
         + (CHOOSE k \in 0..9 : DigitChars[k + 1] = str[Len(str)])

RECURSIVE PowerOfTen(_)
PowerOfTen(k) == IF k = 0 THEN 1 ELSE 10 * PowerOfTen(k - 1)

\* float() of an unsigned string: nan, inf, or digits with at most one point
\* and at least one digit, as the fraction n / d.  (The exponent and
\* underscore forms float() also reads are not among the replies sampled.)
ParseUnsigned(str, neg) ==
    IF Lower(str) = <<"n", "a", "n">> THEN [kind |-> "nan"]
    ELSE IF Lower(str) \in {<<"i", "n", "f">>, <<"i", "n", "f", "i", "n", "i", "t", "y">>}
    THEN [kind |-> "inf", neg |-> neg]
    ELSE IF \E i \in 1..Len(str) : str[i] = "."
    THEN LET i == CHOOSE j \in 1..Len(str) : str[j] = "."
             whole == SubSeq(str, 1, i - 1)
             frac == SubSeq(str, i + 1, Len(str))
         IN  IF IsDigits(whole) /\ IsDigits(frac) /\ Len(whole) + Len(frac) > 0
             THEN [kind |-> "num", neg |-> neg, n |-> DigitsValue(whole \o frac),
                   d |-> PowerOfTen(Len(frac))]
             ELSE [kind |-> "error"]
    ELSE IF str # <<>> /\ IsDigits(str)
    THEN [kind |-> "num", neg |-> neg, n |-> DigitsValue(str), d |-> 1]
    ELSE [kind |-> "error"]

\* line 124: float(content), content already stripped (line 122): ValueError
\* is kind "error"
ParseFloat(content) ==
    LET str == Strip(content)
    IN  IF str # <<>> /\ str[1] \in {"+", "-"}
        THEN ParseUnsigned(Tail(str), str[1] = "-")
        ELSE ParseUnsigned(str, FALSE)

\* A variant of the clamp that lets a number pass as it is
DatasetQualityUnclamped(f) ==
    IF f.kind = "num" THEN (IF f.neg THEN 0 - 1 ELSE 1) * ((100 * f.n) \div f.d)
    ELSE 100

\* line 125: max(0.0, min(1.0, score)), in hundredths.  min(1.0, nan) is 1.0:
\* min keeps its first argument unless the second compares lower.
DatasetQualityClamp(f) ==
    IF f.kind = "nan" THEN 100
    ELSE IF f.kind = "inf" THEN (IF f.neg THEN 0 ELSE 100)
    ELSE IF f.neg THEN 0
    ELSE IF f.n >= f.d THEN 100
    ELSE (100 * f.n) \div f.d

\* lines 114-131: the external judgment.  env is [api_key, post, body]:
\* the key of the environment (<< >> when unset), the outcome of the POST and
\* the reply: [content |-> text], or << >> for a body without
\* choices[0].message.content.  The result is << score >> when lines 121-126
\* set the score and return, << >> when the fallback is to run.
DatasetQualityJudgment(env) ==
    IF env.post # "ok" \/ env.body = <<>> THEN <<>>
    ELSE IF ParseFloat(env.body[1]).kind = "error" THEN <<>>
    ELSE << DatasetQualityClamp(ParseFloat(env.body[1])) >>

\* calculate_score, lines 78-137: [score, posts]; posts counts the external
\* calls.  Without a key (unset or empty, line 86) none is made.
DatasetQualityCalculateScore(data, env) ==
    IF env.api_key = <<>> \/ env.api_key[1] = <<>>
    THEN [score |-> DatasetQualityHeuristic(data), posts |-> 0]
    ELSE IF DatasetQualityJudgment(env) # <<>>
    THEN [score |-> DatasetQualityJudgment(env)[1], posts |-> 1]
    ELSE [score |-> DatasetQualityHeuristic(data), posts |-> 1]


----------------------------------------------------------------------------
(* Calls of DatasetQualityMetric.calculate_score *)

\* description lengths on both sides of the thresholds of lines 42-45
DatasetDescriptionLengths == {0, 50, 51, 101}

DatasetQualityData ==
    [dataset_url : BOOLEAN, code_url : BOOLEAN, description_length : DatasetDescriptionLengths,
     has_readme : BOOLEAN, has_examples : BOOLEAN]

\* replies that write a number, with the number in hundredths
NumericReplies ==
    {[content |-> <<"0", ".", "3", "7">>, value |-> 37], [content |-> <<" ", "0", ".", "5", " ">>, value |-> 50],
     [content |-> <<"1", ".", "5">>, value |-> 150], [content |-> <<"-", "0", ".", "2">>, value |-> 0 - 20],
     [content |-> <<"1">>, value |-> 100], [content |-> <<"0">>, value |-> 0],
     [content |-> <<".", "2", "5">>, value |-> 25], [content |-> <<"+", "1", ".">>, value |-> 100]}

\* replies float() reads as not-a-number or an infinity
SpecialReplies == {<<"n", "a", "n">>, <<"i", "n", "f">>, <<"-", "I", "n", "f", "i", "n", "i", "t", "y">>}

\* replies float() rejects
OtherReplies == {<<>>, <<"a", "b", "c">>, <<"0", ".", "8", " ", "o", "u", "t", " ", "o", "f", " ", "1">>, <<"1", ".", "2", ".", "3">>, <<".">>, <<"-">>}

ReplyBodies ==
    {<<>>} \cup {<< r.content >> : r \in NumericReplies}
    \cup {<< c >> : c \in SpecialReplies \cup OtherReplies}

DatasetQualityEnvs ==
    [api_key : {<<>>, << <<>> >>, << <<"k">> >>}, post : {"ok", "non200", "exception"},
     body : ReplyBodies]

\* calculate_score(data), lines 78-137
DatasetQualityDoCalculateScore ==
    /\ call.op = "none"
    /\ \E data \in DatasetQualityData, env \in DatasetQualityEnvs :
         \E r \in {DatasetQualityCalculateScore(data, env)} :
           /\ dataset_quality_metric' = [dataset_quality_metric EXCEPT !.score = r.score]
           /\ call' = [op |-> "dataset_quality_score", data |-> data, env |-> env,
                       posts |-> r.posts]
    /\ UNCHANGED << perf_metric, bus_metric, code_quality_metric, instances, seen_datasets >>

DatasetQualityNext ==
    /\ DatasetQualityDoCalculateScore
    /\ UNCHANGED << sizeVars, rampupVars, licenseVars, processVars >>

InitDatasetQuality == SizeInit /\ RampUpInit /\ LicenseInit /\ ProcessIdle /\ CallIdle

SpecDatasetQuality == InitDatasetQuality /\ [][DatasetQualityNext]_vars


----------------------------------------------------------------------------
(* parse_input_file: src/cli/url_handler.py lines 240-241 and 318-444 *)

\* str.split(c) for a one-character c
RECURSIVE SplitOn(_, _)
SplitOn(str, c) ==
    IF \A i \in 1..Len(str) : str[i] # c THEN << str >>
    ELSE LET i == CHOOSE j \in 1..Len(str) :
                      str[j] = c /\ \A h \in 1..(j - 1) : str[h] # c
         IN  << SubSeq(str, 1, i - 1) >> \o SplitOn(SubSeq(str, i + 1, Len(str)), c)

\* str.strip(c) for a one-character c
RECURSIVE StripChar(_, _)
StripChar(str, c) ==
    IF str # <<>> /\ str[1] = c THEN StripChar(Tail(str), c)
    ELSE IF str # <<>> /\ str[Len(str)] = c THEN StripChar(SubSeq(str, 1, Len(str) - 1), c)
    ELSE str

\* extract_model_name, lines 318-327
extract_model_name(u) ==
    LET parts == SplitOn(AfterLast(u, <<"h", "u", "g", "g", "i", "n", "g", "f", "a", "c", "e", ".", "c", "o", "/">>), "/")
        last == AfterLast(RStripSlash(u), <<"/">>)
    IN  IF Contains(u, HubHost) /\ Len(parts) >= 2 THEN parts[2]
        ELSE IF last # <<>> THEN last ELSE <<"u", "n", "k", "n", "o", "w", "n">>

\* is_model_url, lines 330-331
is_model_url(u) == u # <<>> /\ Contains(u, HubHost) /\ ~Contains(u, <<"/", "d", "a", "t", "a", "s", "e", "t", "s", "/">>)

\* is_dataset_url, lines 334-335
is_dataset_url(u) == u # <<>> /\ Contains(u, HubDatasetMarker)

\* line 423: the fields of a line, each stripped of blanks and quotes
LineParts(line) ==
    LET parts == SplitOn(line, ",")
    IN  [i \in 1..Len(parts) |-> StripChar(StripChar(Strip(parts[i]), "\""), "'")]

\* lines 424-426: code_url, dataset_url, model_url; a missing field is empty
LineFields(line) ==
    LET parts == LineParts(line)
        at(i) == IF i <= Len(parts) THEN parts[i] ELSE <<>>
    IN  [code_url |-> at(1), dataset_url |-> at(2), model_url |-> at(3)]

\* lines 436-442
ModelEntry(model_url, dataset_url, code_url) ==
    [category |-> <<"M", "O", "D", "E", "L">>, url |-> model_url, name |-> extract_model_name(model_url),
     dataset_url |-> dataset_url, code_url |-> code_url]

\* lines 429-431: a hub dataset URL not yet a key of seen_datasets is added
\* as its last key; one that is a key already keeps its place
SeenAfter(seen, dataset_url) ==
    IF \E i \in 1..Len(seen) : seen[i] = dataset_url THEN seen
    ELSE Append(seen, dataset_url)

\* lines 422-444, one pass of the loop over the fields f of a line.
\* st is [parsed, seen]: the entries so far and the keys of seen_datasets
LineStep(st, f) ==
    IF ~is_model_url(f.model_url) THEN st
    ELSE IF f.dataset_url # <<>> /\ is_dataset_url(f.dataset_url)
    THEN [parsed |-> Append(st.parsed, ModelEntry(f.model_url, f.dataset_url, f.code_url)),
          seen |-> SeenAfter(st.seen, f.dataset_url)]
    ELSE IF f.dataset_url = <<>> /\ st.seen # <<>>
    THEN [parsed |-> Append(st.parsed, ModelEntry(f.model_url, st.seen[Len(st.seen)], f.code_url)),
          seen |-> st.seen]
    ELSE [parsed |-> Append(st.parsed, ModelEntry(f.model_url, f.dataset_url, f.code_url)),
          seen |-> st.seen]

\* lines 422-444: the loop
RECURSIVE LineSteps(_, _)
LineSteps(st, lines) ==
    IF lines = <<>> THEN st
    ELSE LineSteps(LineStep(st, LineFields(Head(lines))), Tail(lines))

\* lines 394-395 and 407: the non-blank lines of a file, stripped
StrippedLines(lines) ==
    SelectSeq([i \in 1..Len(lines) |-> Strip(lines[i])], LAMBDA ln : ln # <<>>)

\* lines 396-405: the lines made of the URLs of a JSON array: ",,u" for each
\* non-empty model URL u
JsonLines(urls) ==
    [i \in 1..Len(SelectSeq(urls, is_model_url)) |->
        <<",", ",">> \o SelectSeq(urls, is_model_url)[i]]

\* lines 387-415: the lines read.  file is << >> when the input names no
\* file, else << the file >>: [t |-> "lines", l |-> its lines] or
\* [t |-> "json", l |-> the strings of its array].
InputLines(input_path, file) ==
    IF file = <<>> THEN << input_path >>
    ELSE IF file[1].t = "json" THEN JsonLines(file[1].l)
    ELSE StrippedLines(file[1].l)

\* parse_input_file, lines 350-444, called while the keys of seen_datasets
\* are seen: [ret, seen]
parse_input_file(input, seen) ==
    IF Strip(input.path) = <<>> THEN [ret |-> <<>>, seen |-> seen]
    ELSE IF StartsWith(Strip(input.path), <<"h", "t", "t", "p">>)
    THEN [ret |-> IF Contains(Strip(input.path), HubHost)
                     /\ ~Contains(Strip(input.path), <<"/", "d", "a", "t", "a", "s", "e", "t", "s", "/">>)
                  THEN << ModelEntry(Strip(input.path), <<>>, <<>>) >>
                  ELSE <<>>,
          seen |-> seen]
    ELSE \* one binding of the loop's result
         LET st == LineSteps([parsed |-> <<>>, seen |-> seen],
                             InputLines(Strip(input.path), input.file))
         IN  [ret |-> st.parsed, seen |-> st.seen]


----------------------------------------------------------------------------
(* Calls of parse_input_file *)

\* bound: the files sampled hold up to this many lines
MaxLines == 4

Dataset1 == <<"h", "u", "g", "g", "i", "n", "g", "f", "a", "c", "e", ".", "c", "o", "/", "d", "a", "t", "a", "s", "e", "t", "s", "/", "d", "1">>

Dataset2 == <<"h", "u", "g", "g", "i", "n", "g", "f", "a", "c", "e", ".", "c", "o", "/", "d", "a", "t", "a", "s", "e", "t", "s", "/", "d", "2">>

\* a model with a first dataset, a model with a second one, a model with
\* no dataset, a dataset with no model
LineSamples ==
    {<<",", "h", "u", "g", "g", "i", "n", "g", "f", "a", "c", "e", ".", "c", "o", "/", "d", "a", "t", "a", "s", "e", "t", "s", "/", "d", "1", ",", "h", "u", "g", "g", "i", "n", "g", "f", "a", "c", "e", ".", "c", "o", "/", "o", "/", "m", "1">>,
     <<",", "h", "u", "g", "g", "i", "n", "g", "f", "a", "c", "e", ".", "c", "o", "/", "d", "a", "t", "a", "s", "e", "t", "s", "/", "d", "2", ",", "h", "u", "g", "g", "i", "n", "g", "f", "a", "c", "e", ".", "c", "o", "/", "o", "/", "m", "2">>,
     <<",", ",", "h", "u", "g", "g", "i", "n", "g", "f", "a", "c", "e", ".", "c", "o", "/", "o", "/", "m", "3">>,
     <<",", "h", "u", "g", "g", "i", "n", "g", "f", "a", "c", "e", ".", "c", "o", "/", "d", "a", "t", "a", "s", "e", "t", "s", "/", "d", "1", ",">>}

InputFile == <<"u", "r", "l", "s", ".", "t", "x", "t">>

LineFiles ==
    {[path |-> InputFile, file |-> << [t |-> "lines", l |-> l] >>] :
        l \in UNION {[1..n -> LineSamples] : n \in 0..MaxLines}}

\* a direct model URL, a direct dataset URL, a blank input, a line given as
\* the input itself, files with quoted and padded fields, a dataset that is
\* not on the hub, a lone URL, and JSON arrays
OtherInputs ==
    {[path |-> p, file |-> <<>>] :
        p \in {<<"h", "t", "t", "p", "s", ":", "/", "/", "h", "u", "g", "g", "i", "n", "g", "f", "a", "c", "e", ".", "c", "o", "/", "o", "/", "m", "1">>, <<"h", "t", "t", "p", "s", ":", "/", "/", "h", "u", "g", "g", "i", "n", "g", "f", "a", "c", "e", ".", "c", "o", "/", "d", "a", "t", "a", "s", "e", "t", "s", "/", "d", "1">>, <<" ">>,
               <<",", "h", "u", "g", "g", "i", "n", "g", "f", "a", "c", "e", ".", "c", "o", "/", "d", "a", "t", "a", "s", "e", "t", "s", "/", "d", "2", ",", "h", "u", "g", "g", "i", "n", "g", "f", "a", "c", "e", ".", "c", "o", "/", "o", "/", "m", "2">>, <<",", ",", "h", "u", "g", "g", "i", "n", "g", "f", "a", "c", "e", ".", "c", "o", "/", "o", "/", "m", "3">>}}
    \cup {[path |-> InputFile, file |-> << [t |-> "lines", l |-> l] >>] :
            l \in {<< <<"g", "i", "t", "h", "u", "b", ".", "c", "o", "m", "/", "o", "/", "r", ",", " ", "\"", "h", "u", "g", "g", "i", "n", "g", "f", "a", "c", "e", ".", "c", "o", "/", "d", "a", "t", "a", "s", "e", "t", "s", "/", "d", "1", "\"", " ", ",", "'", "h", "u", "g", "g", "i", "n", "g", "f", "a", "c", "e", ".", "c", "o", "/", "o", "/", "m", "1", "'">>, <<" ">>, <<",", ",", "h", "u", "g", "g", "i", "n", "g", "f", "a", "c", "e", ".", "c", "o", "/", "o", "/", "m", "3">> >>,
                   << <<",", "e", "x", "a", "m", "p", "l", "e", ".", "c", "o", "m", "/", "d", "a", "t", "a", ",", "h", "u", "g", "g", "i", "n", "g", "f", "a", "c", "e", ".", "c", "o", "/", "o", "/", "m", "1">>, <<",", ",", "h", "u", "g", "g", "i", "n", "g", "f", "a", "c", "e", ".", "c", "o", "/", "o", "/", "m", "3">> >>,
                   << <<"h", "u", "g", "g", "i", "n", "g", "f", "a", "c", "e", ".", "c", "o", "/", "o", "/", "m", "1">> >>}}
    \cup {[path |-> InputFile, file |-> << [t |-> "json", l |-> l] >>] :
            l \in {<<>>, << <<"h", "u", "g", "g", "i", "n", "g", "f", "a", "c", "e", ".", "c", "o", "/", "o", "/", "m", "1">>, <<"h", "u", "g", "g", "i", "n", "g", "f", "a", "c", "e", ".", "c", "o", "/", "d", "a", "t", "a", "s", "e", "t", "s", "/", "d", "1">>, <<>>, <<"h", "u", "g", "g", "i", "n", "g", "f", "a", "c", "e", ".", "c", "o", "/", "o", "/", "m", "3">> >>}}

\* what a second call is given, besides the input of the first call
FollowUpInputs ==
    {[path |-> InputFile, file |-> << [t |-> "lines", l |-> << <<",", ",", "h", "u", "g", "g", "i", "n", "g", "f", "a", "c", "e", ".", "c", "o", "/", "o", "/", "m", "3">> >>] >>],
     [path |-> InputFile, file |-> << [t |-> "json", l |-> << <<"h", "u", "g", "g", "i", "n", "g", "f", "a", "c", "e", ".", "c", "o", "/", "o", "/", "m", "3">> >>] >>],
     [path |-> <<",", ",", "h", "u", "g", "g", "i", "n", "g", "f", "a", "c", "e", ".", "c", "o", "/", "o", "/", "m", "3">>, file |-> <<>>],
     [path |-> <<"h", "t", "t", "p", "s", ":", "/", "/", "h", "u", "g", "g", "i", "n", "g", "f", "a", "c", "e", ".", "c", "o", "/", "o", "/", "m", "1">>, file |-> <<>>],
     [path |-> InputFile, file |-> << [t |-> "lines", l |-> << <<",", "h", "u", "g", "g", "i", "n", "g", "f", "a", "c", "e", ".", "c", "o", "/", "d", "a", "t", "a", "s", "e", "t", "s", "/", "d", "2", ",", "h", "u", "g", "g", "i", "n", "g", "f", "a", "c", "e", ".", "c", "o", "/", "o", "/", "m", "2">>, <<",", ",", "h", "u", "g", "g", "i", "n", "g", "f", "a", "c", "e", ".", "c", "o", "/", "o", "/", "m", "3">> >>] >>]}

\* one call of parse_input_file: the entries returned, and seen_datasets as
\* the loop leaves it
ParseCall(input, prev) ==
    \E r \in {parse_input_file(input, seen_datasets)} :
        /\ seen_datasets' = r.seen
        /\ call' = [op |-> "parse_input_file", input |-> input, seen |-> seen_datasets,
                    ret |-> r.ret, prev |-> prev]
        /\ UNCHANGED << perf_metric, bus_metric, code_quality_metric, dataset_quality_metric, instances >>

\* the first call of the process, on a file of lines
DoParseLines ==
    /\ call.op = "none"
    /\ \E input \in LineFiles : ParseCall(input, <<>>)

\* the first call of the process, on another input
DoParseOther ==
    /\ call.op = "none"
    /\ \E input \in OtherInputs : ParseCall(input, <<>>)

\* a later call in the same process
DoParseAgain ==
    /\ call.op = "parse_input_file"
    /\ call.prev = <<>>
    /\ \E input \in FollowUpInputs \cup {call.input} : ParseCall(input, << call >>)

ParseNext ==
    /\ \/ DoParseLines
       \/ DoParseOther
       \/ DoParseAgain
    /\ UNCHANGED << sizeVars, rampupVars, licenseVars, processVars >>

InitParse == SizeInit /\ RampUpInit /\ LicenseInit /\ ProcessIdle /\ CallIdle

SpecParse == InitParse /\ [][ParseNext]_vars


----------------------------------------------------------------------------
(* Scoring runs: process_url (src/cli/main.py lines 26-96) and the loop of
   Menu.run_score_all (src/cli/menu.py lines 60-112) within interpreter
   processes *)

\* bound: how many URLs are scored in one behaviour
MaxScored == 2

\* The licenses a README may name.  LicenseMetric.get_data (lines 87-92)
\* iterates a set of strings; the order is fixed within one interpreter
\* process and, string hashes being randomised, differs between processes
ReadmeLicenseNames == {<<"m", "i", "t">>, <<"e", "p", "l", "-", "2", ".", "0">>}

ScoringOrders == {<< <<"m", "i", "t">>, <<"e", "p", "l", "-", "2", ".", "0">> >>, << <<"e", "p", "l", "-", "2", ".", "0">>, <<"m", "i", "t">> >>}

\* the license the iteration of this process meets first among names
FirstMet(order, names) ==
    IF names = {} THEN <<>>
    ELSE order[CHOOSE i \in 1..Len(order) :
                   order[i] \in names /\ \A h \in 1..(i - 1) : order[h] \notin names]

\* calculate of calculator m in a process whose set iteration order is order
ScoringCalculate(m, up, raises, order) ==
    IF m = "LicenseMetric"
    THEN [raised |-> FALSE,
          ret |-> LicenseCalculate(up[m], FirstMet(order, up[m].readme), raises).ret]
    ELSE Calculate(m, up, raises)

\* main.py lines 39-40 and menu.py lines 78-82, one turn of the loop over
\* the calculators.  st is [raised, results, objects]; catching tells whether
\* the loop catches what a calculator raises (menu.py lines 79-82).
ScoringTurn(st, m, r, latency, catching) ==
    IF st.raised THEN st
    ELSE IF r.raised
    THEN [st EXCEPT !.raised = ~catching]
    ELSE [raised |-> FALSE,
          results |-> (LatencyKey(m) :> latency) @@ r.ret @@ st.results,
          objects |-> [st.objects EXCEPT ![m] = [score |-> r.ret[Name(m)]]]]

RECURSIVE ScoringLoop(_, _, _, _, _, _)
ScoringLoop(st, i, up, failed, order, catching) ==
    IF i > Len(metrics) THEN st
    ELSE ScoringLoop(ScoringTurn(st, metrics[i],
                                 ScoringCalculate(metrics[i], up, metrics[i] \in failed, order),
                                 up.latency[metrics[i]], catching),
                     i + 1, up, failed, order, catching)

\* main.py lines 42-74 and menu.py lines 85-107: the net score and the
\* total latency added to the record
WithNet(results) ==
    ("net_score" :> NetScore(results)) @@ ("net_score_latency" :> NetLatency(results))
    @@ results

\* process_url(u), lines 26-96: new objects, the loop, the derived fields
ProcessUrl(u, up, failed, order) ==
    \* one binding of the loop's result
    LET st == ScoringLoop([raised |-> FALSE, results |-> EmptyDict, objects |-> FreshInstances],
                          1, up, failed, order, FALSE)
    IN  [st EXCEPT !.results = IF st.raised THEN EmptyDict
                               ELSE ("name" :> NameOf(u)) @@ ("category" :> CategoryOf(u))
                                    @@ WithNet(st.results)]

\* menu.py lines 75-107: one URL of run_score_all, on the objects given
ScoreAllUrl(objects, up, failed, order) ==
    LET st == ScoringLoop([raised |-> FALSE, results |-> EmptyDict, objects |-> objects],
                          1, up, failed, order, TRUE)
    IN  [st EXCEPT !.results = WithNet(st.results)]

ScoringUrls ==
    {<<"h", "t", "t", "p", "s", ":", "/", "/", "h", "u", "g", "g", "i", "n", "g", "f", "a", "c", "e", ".", "c", "o", "/", "o", "r", "g", "/", "m">>, <<"h", "t", "t", "p", "s", ":", "/", "/", "g", "i", "t", "h", "u", "b", ".", "c", "o", "m", "/", "o", "/", "r">>}

\* a README naming two licenses, and a license field
ScoringLicenseCases ==
    {[license |-> <<>>, code |-> TRUE, spdx |-> <<>>, readme |-> ReadmeLicenseNames],
     [license |-> << <<"M", "I", "T">> >>, code |-> FALSE, spdx |-> <<>>, readme |-> {}]}

\* upstreams in which every calculator resolves little, or every one much
ScoringUpstreams ==
    {[u EXCEPT !.LicenseMetric = lic] :
        u \in {v \in Upstreams :
                 /\ v.latency = [m \in Metrics |-> 0]
                 /\ v.LicenseMetric.license = <<>>
                 /\ \A m \in {"DatasetAndCodeMetric"} : (v[m] = 0) <=> (v.BusFactorMetric = 0)
                 /\ v.RampUpMetric.has_clear_documentation <=> (v.BusFactorMetric # 0)
                 /\ v.DatasetQualityMetric.dataset_url <=> (v.BusFactorMetric # 0)
                 /\ v.CodeQualityMetric.has_tests <=> (v.BusFactorMetric # 0)},
        lic \in ScoringLicenseCases}

ScoringFailing == {{}, {"RampUpMetric"}}

\* the entry a scoring leaves in the log
Scored(mode, u, up, failed, st) ==
    [mode |-> mode, process |-> call.process, url |-> u, upstream |-> up,
     failing |-> failed, raised |-> st.raised, results |-> st.results]

\* a Python interpreter starts: its set iteration order is drawn
StartInterpreter ==
    /\ call.op = "none" \/ (call.op = "scoring" /\ call.mode # "started")
    /\ \E order \in ScoringOrders :
         call' = [op |-> "scoring", mode |-> "started", order |-> order,
                  process |-> IF call.op = "none" THEN 1 ELSE call.process + 1,
                  log |-> IF call.op = "none" THEN <<>> ELSE call.log]
    /\ instances' = FreshInstances

\* process_url(u)
DoProcessUrl ==
    /\ call.op = "scoring"
    /\ Len(call.log) < MaxScored
    /\ \E u \in ScoringUrls, up \in ScoringUpstreams, failed \in ScoringFailing :
         \E st \in {ProcessUrl(u, up, failed, call.order)} :
           /\ instances' = st.objects
           /\ call' = [call EXCEPT !.mode = "process_url",
                                   !.log = Append(@, Scored("process_url", u, up, failed, st))]

\* run_score_all: the objects are made (lines 64-73) and the first URL scored
DoScoreAllFirst ==
    /\ call.op = "scoring"
    /\ Len(call.log) < MaxScored
    /\ \E u \in ScoringUrls, up \in ScoringUpstreams, failed \in ScoringFailing :
         \E st \in {ScoreAllUrl(FreshInstances, up, failed, call.order)} :
           /\ instances' = st.objects
           /\ call' = [call EXCEPT !.mode = "run_score_all",
                                   !.log = Append(@, Scored("run_score_all", u, up, failed, st))]

\* run_score_all: the next URL of the list, on the same objects
DoScoreAllNext ==
    /\ call.op = "scoring"
    /\ call.mode = "run_score_all"
    /\ Len(call.log) < MaxScored
    /\ \E u \in ScoringUrls, up \in ScoringUpstreams, failed \in ScoringFailing :
         \E st \in {ScoreAllUrl(instances, up, failed, call.order)} :
           /\ instances' = st.objects
           /\ call' = [call EXCEPT !.log = Append(@, Scored("run_score_all", u, up, failed, st))]

ScoringNext ==
    /\ \/ StartInterpreter
       \/ DoProcessUrl
       \/ DoScoreAllFirst
       \/ DoScoreAllNext
    /\ UNCHANGED << sizeVars, rampupVars, licenseVars, processVars, perf_metric,
                    bus_metric, code_quality_metric, dataset_quality_metric, seen_datasets >>

InitScoring == SizeInit /\ RampUpInit /\ LicenseInit /\ ProcessIdle /\ CallIdle

SpecScoring == InitScoring /\ [][ScoringNext]_vars

----------------------------------------------------------------------------
(* Properties *)

\* C1 (SpecRecord): whatever the calculators put in the result record (scores
\* of [0, 1], the sentinel -1.0, missing keys, any size map), the net_score
\* process_url returns satisfies 0.0 <= net_score <= 1.0.
NetScoreInUnitInterval ==
    pc = "done" =>
        /\ metrics_results["net_score"] >= 0
        /\ metrics_results["net_score"] <= NetUnit

\* a returned record with a sentinel and a missing key whose weighted sum is
\* negative and whose net_score is the floor of the clamp
NetScoreFloorReached ==
    /\ pc = "done"
    /\ \E k \in ScalarKeys : k \notin DOMAIN metrics_results
    /\ \E k \in ScalarKeys :
          k \in DOMAIN metrics_results /\ metrics_results[k] = Sentinel
    /\ NetSum(metrics_results) < 0
    /\ metrics_results["net_score"] = 0

\* the score calculator m returned in this run
Returned(m) == Calculate(m, upstream, m \in failing).ret[Name(m)]

\* C2 (Spec): net_score is the clamped weighted sum of the scores the
\* calculators returned in the same run: 0.20 ramp_up + 0.15 bus_factor +
\* 0.15 performance_claims + 0.10 license + 0.15 mean(size map) +
\* 0.15 dataset_and_code + 0.10 code_quality; the score LicenseMetric.calculate
\* returned counts with weight 0.10.
NetScoreWeighsReturnedScores ==
    pc = "done" =>
        metrics_results["net_score"] =
            Max(0, Min(NetUnit,
                12 * (20 * Returned("RampUpMetric")
                      + 15 * Returned("BusFactorMetric")
                      + 15 * Returned("PerformanceClaimsMetric")
                      + 10 * Returned("LicenseMetric")
                      + 15 * Returned("DatasetAndCodeMetric")
                      + 10 * Returned("CodeQualityMetric"))
                + 15 * 3 * SumOver(Returned("SizeMetric"), Devices)))

MetricFailureIsContained ==
    /\ pc # "raised"
    /\ pc = "done" =>
          \A m \in Metrics :
              /\ Name(m) \in DOMAIN metrics_results
              /\ LatencyKey(m) \in DOMAIN metrics_results
              /\ m \in failing =>
                    metrics_results[Name(m)] =
                        IF m = "SizeMetric" THEN ZeroSizeScore ELSE 0
              /\ m \notin failing =>
                    metrics_results[Name(m)] = Calculate(m, upstream, FALSE).ret[Name(m)]

\* a finished run in which RampUpMetric failed on a record it would have
\* scored 1.0 and the license and code-quality scores are reported all the same
FailureContainedReached ==
    /\ pc = "done"
    /\ failing = {"RampUpMetric"}
    /\ upstream["RampUpMetric"].has_clear_documentation
    /\ metrics_results["ramp_up_time"] = 0
    /\ metrics_results["license_score"] = 100
    /\ metrics_results["code_quality"] = 100

\* C5 (SpecRampUp): RampUpMetric.calculate_score leaves score in [0.0, 1.0]
\* for every combination of the five presence flags, the description length,
\* the model complexity and the category.
RampUpScoreInUnitInterval ==
    rampup_call.op = "calculate_score" =>
        /\ rampup_metric.score >= 0
        /\ rampup_metric.score <= 100

\* Two successive calculate_score calls: sizes s1 <= s2 and the maps they left
SizePairSeen ==
    /\ size_call.op = "calculate_score"
    /\ size_call.prev # EmptyDict
    /\ size_call.prev.arg <= size_call.arg

SizeCalculateScoresTheRecord ==
    (/\ size_call.op = "calculate"
     /\ size_call.arg.type = "dict"
     /\ "model_size_mb" \in DOMAIN size_call.arg.value)
    => /\ size_call.ret["size_score"]
            = SizeCalculateScore(size_call.arg.value["model_size_mb"]).size_score
       /\ size_call.fetches = 0

\* the size a call was about: the argument of calculate_score, the
\* model_size_mb of the record given to calculate, 0 when there is none
SizeAsked ==
    IF size_call.op = "calculate_score" THEN size_call.arg
    ELSE IF size_call.arg.type = "dict"
    THEN Get(size_call.arg.value, "model_size_mb", 0)
    ELSE 0

\* C8 (SpecSize): for every input the size_score map has exactly the four
\* device keys, every value lies in [0.0, 1.0], and all four are 0.0 when the
\* size is absent or <= 0.
SizeScoreWellFormed ==
    size_call.op # "none" =>
        /\ DOMAIN size_metric.size_score = Devices
        /\ \A d \in Devices :
              size_metric.size_score[d] >= 0 /\ size_metric.size_score[d] <= 100
        /\ SizeAsked <= 0 => \A d \in Devices : size_metric.size_score[d] = 0
        /\ size_call.op = "calculate" =>
              size_call.ret["size_score"] = size_metric.size_score

\* a size past three times the desktop threshold: the desktop score has
\* decayed to 0.0 while the server score is still positive
SizeScoreFloorReached ==
    /\ size_call.op = "calculate_score"
    /\ size_call.arg > 3 * thresholds["desktop_pc"]
    /\ size_metric.size_score["desktop_pc"] = 0
    /\ size_metric.size_score["aws_server"] > 0

\* the license string a calculate call resolved and scored
LicenseResolved ==
    /\ license_call.op = "calculate"
    /\ ~license_call.raises
    /\ license_call.license_str # <<>>

PermissiveSet ==
    {<<"m", "i", "t">>,
     <<"a", "p", "a", "c", "h", "e", "-", "2", ".", "0">>,
     <<"b", "s", "d", "-", "2", "-", "c", "l", "a", "u", "s", "e">>,
     <<"b", "s", "d", "-", "3", "-", "c", "l", "a", "u", "s", "e">>,
     <<"i", "s", "c">>}

CopyleftFamilies ==
    {<<"g", "p", "l">>, <<"l", "g", "p", "l">>, <<"m", "p", "l">>, <<"e", "p", "l">>}

CopyleftListed ==
    {<<"g", "p", "l", "-", "3", ".", "0">>,
     <<"g", "p", "l", "-", "2", ".", "0">>,
     <<"l", "g", "p", "l", "-", "2", ".", "1">>,
     <<"l", "g", "p", "l", "-", "3", ".", "0">>,
     <<"m", "p", "l", "-", "2", ".", "0">>,
     <<"e", "p", "l", "-", "2", ".", "0">>}

\* C9 (SpecLicense), as stated: a resolved license string scores 1.0 in the
\* permissive set, 0.7 when it is a copyleft license of the gpl, lgpl, mpl or
\* epl family, 0.5 when it contains 'custom', 0.2 otherwise, in that order.
LicenseTableByFamily ==
    LicenseResolved =>
        LET norm == Lower(Strip(license_call.license_str))
        IN  license_metric.score =
                IF norm \in PermissiveSet THEN 100
                ELSE IF \E f \in CopyleftFamilies : StartsWith(norm, f) THEN 70
                ELSE IF Contains(norm, <<"c", "u", "s", "t", "o", "m">>) THEN 50
                ELSE 20

\* C9 (SpecLicense), amended: 0.7 is the score of the six listed identifiers
\* gpl-3.0, gpl-2.0, lgpl-2.1, lgpl-3.0, mpl-2.0 and epl-2.0; any other member
\* of those families falls through to the custom and 0.2 rules.
LicenseTableByIdentifier ==
    LicenseResolved =>
        LET norm == Lower(Strip(license_call.license_str))
        IN  /\ license_metric.score =
                  IF norm \in PermissiveSet THEN 100
                  ELSE IF norm \in CopyleftListed THEN 70
                  ELSE IF Contains(norm, <<"c", "u", "s", "t", "o", "m">>) THEN 50
                  ELSE 20
            /\ license_call.ret = ("license_score" :> license_metric.score)

\* an upper-cased, padded GPL-3.0 scored 0.7
LicenseCopyleftReached ==
    /\ LicenseResolved
    /\ license_call.rec.license = << <<" ", "G", "P", "L", "-", "3", ".", "0">> >>
    /\ license_metric.score = 70

\* C10 (SpecLicense): the license score depends only on the lower-cased,
\* trimmed license string: two license strings equal after trimming and
\* lower-casing get identical scores from LicenseMetric.calculate.
LicenseScoreOfNormalizedString ==
    (/\ license_call.op = "calculate"
     /\ ~license_call.raises
     /\ license_call.rec.license # <<>>)
    => \A l2 \in LicenseStrings :
          Lower(Strip(l2)) = Lower(Strip(license_call.rec.license[1]))
          => LicenseCalculate([license_call.rec EXCEPT !.license = <<l2>>],
                              <<>>, FALSE).score = license_metric.score

\* " MIT" scored 1.0, as "mit" is
LicenseVariantReached ==
    /\ license_call.op = "calculate"
    /\ ~license_call.raises
    /\ license_call.rec.license = << <<" ", "M", "I", "T">> >>
    /\ license_metric.score = 100

\* C11 (SpecLicense): for a MODEL record for which no license can be resolved
\* (no license in the record; the URL is not on a code host, so no request is
\* made), LicenseMetric.calculate returns a license score of 0.2.
UnresolvedLicenseScoresFloor ==
    (/\ license_call.op = "calculate"
     /\ ~license_call.raises
     /\ license_call.rec.license = <<>>
     /\ ~license_call.rec.code)
    => /\ license_metric.score = 20
       /\ license_call.ret["license_score"] = 20

DictPassesThrough ==
    (call.op = "fetch_metadata" /\ call.x.t = "dict") =>
        /\ ~call.raised
        /\ call.ret = call.x.d
        /\ call.reqs = {}
        /\ call.prev # <<>> => call.ret = call.prev[1]

\* the record resolved for a repository, commit authors included, given back
\* to fetch_metadata with the options switched off
DictPassThroughReached ==
    /\ call.op = "fetch_metadata"
    /\ call.prev # <<>>
    /\ ~call.include_commits
    /\ "commit_authors" \in DOMAIN call.prev[1]
    /\ "repo_api" \in DOMAIN call.ret

HoldsLicense(v) == v.t = "str" /\ v.s # <<>>

\* C20 (SpecUrl): for a hub MODEL or DATASET URL whose hub record was fetched,
\* the license of the record fetch_metadata returns is chosen by strict
\* priority: the direct license field when it holds a license; otherwise the
\* cardData license when it holds one; otherwise the text after the marker of
\* the first tag prefixed 'license:'; absent only when none of the three holds
\* a license.
LicenseByPriority ==
    (/\ call.op = "fetch_metadata"
     /\ call.x.t = "str"
     /\ "hub" \in call.reqs
     /\ call.net.hub = "ok"
     /\ call.net.hub_json.t = "dict")
    => LET js == call.net.hub_json.d
           direct == Get(js, "license", None)
           cd == Get(js, "cardData", None)
           card == IF cd.t = "dict" THEN Get(cd.d, "license", None) ELSE None
           tg == Get(js, "tags", None)
           first == IF tg.t = "list" THEN FirstLicenseTag(tg.l) ELSE <<>>
           tag == IF first = <<>> THEN None ELSE Str(first[1])
           got == Get(call.ret, "license", None)
       IN  IF HoldsLicense(direct) THEN got = direct
           ELSE IF HoldsLicense(card) THEN got = card
           ELSE IF HoldsLicense(tag) THEN got = tag
           ELSE ~HoldsLicense(got)


\* C17: once process_url has returned, the category of the score record is
\* the class classify_url gives the same URL, reading DATABASE as DATASET,
\* MODEL as MODEL, CODE as REPO and OTHER as UNKNOWN.
CategoryIsClassifierClass ==
    pc = "done" =>
        LET kind == classify_url(Str(url))
        IN  metrics_results["category"] =
                IF kind = DATABASE THEN "DATASET"
                ELSE IF kind = MODEL THEN "MODEL"
                ELSE IF kind = CODE THEN "REPO"
                ELSE "UNKNOWN"


\* C12: calculate on a hub MODEL URL whose hub record carries no model-index,
\* no tags, no cardData and no download or like count returns
\* performance_claims 0.1.
BareModelScoresPerformanceFloor ==
    (/\ call.op = "calculate"
     /\ call.x.t = "str"
     /\ classify_url(call.x) = MODEL
     /\ call.net.hub = "ok"
     /\ call.net.hub_json.t = "dict"
     /\ DOMAIN call.net.hub_json.d
            \cap {"model-index", "tags", "cardData", "downloads", "likes"} = {})
        => call.ret["performance_claims"] = 10

\* C13: calculate_score leaves 0.0 for a record whose category is not MODEL
\* and a score between 0.1 and 1.0 for every MODEL record.
PerformanceScoreFloorAndCap ==
    call.op = "calculate_score" =>
        IF call.data.category # "MODEL" THEN perf_metric.score = 0
        ELSE 10 <= perf_metric.score /\ perf_metric.score <= 100

PerformanceFloorReached ==
    /\ call.op = "calculate_score"
    /\ call.data.category = "MODEL"
    /\ ~call.data.model_index /\ ~call.data.perf_tag /\ ~call.data.card_model_index
    /\ call.data.downloads = 0 /\ call.data.likes = 0
    /\ perf_metric.score = 10


AuthorsOnceInFirstSeenOrder ==
    /\ (call.op = "calculate" /\ call.x.t = "str"
            /\ "commit_authors" \in DOMAIN call.parsed_data)
        => call.parsed_data["commit_authors"].l
              = UniqueStripped(CommitIdentifiers(call.net.commits_json.l), {})
    /\ call.op = "get_data"
        => LET pre == Get(call.parsed_data, "commit_authors", None)
               given == IF pre.t = "list" /\ pre.l # <<>> THEN pre.l
                        ELSE IF call.fetched THEN BusFetchCommitAuthors(call.net)
                        ELSE <<>>
           IN  /\ \A i, j \in 1..Len(call.ret) : i # j => call.ret[i] # call.ret[j]
               /\ call.ret = UniqueStripped(given, {})


\* C29: after calculate_score, whatever the size, a device class with a
\* larger threshold never has a lower score than one with a smaller
\* threshold: raspberry_pi <= jetson_nano <= desktop_pc <= aws_server.
SizeScoreOrderedByThreshold ==
    size_call.op = "calculate_score" =>
        \A d1, d2 \in Devices :
            thresholds[d1] <= thresholds[d2]
                => size_metric.size_score[d1] <= size_metric.size_score[d2]


\* C25: in the record process_url returns, each of the eight calculators has
\* its own latency, a non-negative integer, and net_score_latency is the sum
\* of the eight, an integer.
NetLatencyIsSumOfEight ==
    pc = "done" =>
        /\ Cardinality({LatencyKey(m) : m \in Metrics}) = 8
        /\ \A m \in Metrics :
              /\ LatencyKey(m) \in DOMAIN metrics_results
              /\ metrics_results[LatencyKey(m)] \in Nat
        /\ metrics_results["net_score_latency"] \in Nat
        /\ metrics_results["net_score_latency"]
              = SumOver([m \in Metrics |-> metrics_results[LatencyKey(m)]], Metrics)

\* eight different latencies, 1 to 8 ms, summed to 36
NetLatencySumReached ==
    /\ pc = "done"
    /\ \A i \in 1..Len(metrics) : metrics_results[LatencyKey(metrics[i])] = i
    /\ metrics_results["net_score_latency"] = 36

\* C26: the name process_url attaches is the last segment of the URL when
\* that is not empty, else the segment before it, else the whole URL, and is
\* never empty for a non-empty URL.
NameIsLastSegmentNeverEmpty ==
    pc = "done" =>
        LET path_parts == Split(url)
            n == Len(path_parts)
            name == metrics_results["name"]
        IN  /\ path_parts[n] # <<>> => name = path_parts[n]
            /\ (path_parts[n] = <<>> /\ n > 2) => name = path_parts[n - 1]
            /\ (path_parts[n] = <<>> /\ n <= 2) => name = url
            /\ url # <<>> => name # <<>>


\* C21 (SpecCodeQuality): within one calculate on a code-host URL each
\* ancillary endpoint is requested at most once: CodeQualityMetric.calculate
\* sends at most one request to the tree endpoint and BusFactorMetric.calculate
\* at most one to the commit list, also when the first request fails or
\* answers with an empty list.
AncillaryEndpointRequestedAtMostOnce ==
    /\ (call.op = "code_quality" /\ call.x.t = "str" /\ classify_url(call.x) = CODE)
          => call.tree_requests <= 1
    /\ (call.op = "calculate" /\ call.x.t = "str" /\ classify_url(call.x) = CODE)
          => call.commit_requests <= 1

\* C22 (SpecCodeQuality): after calculate the score is 0.30*[tests] + 0.25*[CI]
\* + 0.15*[lint] + 0.15*min(1, source files / 20) + 0.15*d, d being 1 with both
\* README and packaging, 0.5 with exactly one and 0 with none; it lies in
\* [0, 1], the value returned is that score to two decimals, and it is 0 when
\* the record points to no parseable repository or no tree entry is read.
CodeQualityScoreIsWeightedSum ==
    call.op = "code_quality" =>
        LET d == call.data
            files == IF d.python_file_count < 20 THEN d.python_file_count ELSE 20
            doc_pack == IF d.has_readme /\ d.has_packaging THEN 2
                        ELSE IF d.has_readme # d.has_packaging THEN 1 ELSE 0
            expected == (IF d.has_tests THEN 120 ELSE 0) + (IF d.has_ci THEN 100 ELSE 0)
                        + (IF d.has_lint_config THEN 60 ELSE 0) + 3 * files + 30 * doc_pack
            ret == call.ret["code_quality"]
        IN  /\ code_quality_metric.score = expected
            /\ 0 <= expected /\ expected <= 400
            /\ 0 <= ret /\ ret <= 100
            /\ 4 * ret - expected \in (0 - 2)..2
            /\ (CodeQualityRepoPath(call.parsed_data) = <<>>
                \/ ~Truthy(CodeQualityTreeOf(call.parsed_data, call.net).tree))
                  => (code_quality_metric.score = 0 /\ ret = 0)

CodeQualityPartialScoreReached ==
    /\ call.op = "code_quality"
    /\ call.data.has_tests /\ ~call.data.has_ci /\ call.data.has_readme
    /\ ~call.data.has_packaging /\ call.data.python_file_count = 21
    /\ code_quality_metric.score = 210
    /\ call.ret["code_quality"] \in {52, 53}

\* C30 (SpecCodeQuality): adding a path entry to the tree of a repository
\* never lowers the code_quality score, and the score is 1.0 only when tests,
\* CI, a lint configuration, a README and packaging are all present and at
\* least 20 source files are counted.
CodeQualityMonotoneInTree ==
    call.op = "code_quality" =>
        /\ call.prev # <<>> =>
              /\ code_quality_metric.score >= call.prev[1].score
              /\ call.ret["code_quality"] >= call.prev[1].ret["code_quality"]
        /\ (code_quality_metric.score = 400 \/ call.ret["code_quality"] = 100) =>
              /\ call.data.has_tests /\ call.data.has_ci /\ call.data.has_lint_config
              /\ call.data.has_readme /\ call.data.has_packaging
              /\ call.data.python_file_count >= 20

CodeQualityGrownToFullScore ==
    /\ call.op = "code_quality"
    /\ call.prev # <<>>
    /\ call.prev[1].ret["code_quality"] = 99
    /\ call.prev[1].data.python_file_count = 19
    /\ code_quality_metric.score = 400
    /\ call.ret["code_quality"] = 100


\* C23 (SpecDatasetQuality): DatasetQualityMetric.calculate_score always
\* leaves a score in [0, 1]: with an API key configured and an external call
\* that answers 200 with a numeric reply, the reply clamped to [0, 1]; in every
\* other case (no key, another status, an exception, a reply that is no
\* number) the heuristic score; and without a key no external call is made.
DatasetQualityScoreClampedOrHeuristic ==
    call.op = "dataset_quality_score" =>
        LET keyed == call.env.api_key # <<>> /\ call.env.api_key[1] # <<>>
            answered == keyed /\ call.env.post = "ok" /\ call.env.body # <<>>
            score == dataset_quality_metric.score
        IN  /\ 0 <= score /\ score <= 100
            /\ \A r \in NumericReplies :
                  (answered /\ call.env.body[1] = r.content) =>
                      score = (IF r.value < 0 THEN 0 ELSE IF r.value > 100 THEN 100 ELSE r.value)
            /\ (~answered \/ call.env.body[1] \in OtherReplies) =>
                  score = DatasetQualityHeuristic(call.data)
            /\ ~keyed => call.posts = 0

DatasetQualityReplyClampedReached ==
    /\ call.op = "dataset_quality_score"
    /\ call.env.api_key = << <<"k">> >> /\ call.env.post = "ok"
    /\ call.env.body = << <<"1", ".", "5">> >>
    /\ call.posts = 1
    /\ DatasetQualityHeuristic(call.data) = 30
    /\ dataset_quality_metric.score = 100


\* C27 (SpecParse): in parse_input_file a model line whose dataset field is
\* empty receives the dataset URL of the most recent preceding line that
\* carries a hub dataset URL, also when that dataset had already appeared on
\* an even earlier line.  (Stated for the first call of a process and for
\* preceding lines that are model lines themselves.)
EmptyDatasetInheritsMostRecent ==
    (call.op = "parse_input_file" /\ call.prev = <<>> /\ call.input.file # <<>>
     /\ call.input.file[1].t = "lines") =>
        LET lines == StrippedLines(call.input.file[1].l)
            ms == SelectSeq([i \in 1..Len(lines) |-> LineFields(lines[i])],
                            LAMBDA f : is_model_url(f.model_url))
        IN  /\ Len(call.ret) = Len(ms)
            /\ \A k \in 1..Len(ms) :
                  LET hubs == {j \in 1..(k - 1) : is_dataset_url(ms[j].dataset_url)}
                  IN  (ms[k].dataset_url = <<>> /\ hubs # {}) =>
                          call.ret[k].dataset_url
                            = ms[CHOOSE j \in hubs : \A h \in hubs : h <= j].dataset_url

\* C28 (SpecParse): the entries parse_input_file returns depend only on the
\* input it is given: a model line with an empty dataset field is never
\* given a dataset URL that only an earlier call saw, and parsing the same
\* input twice gives equal results.
ParseDependsOnInputOnly ==
    call.op = "parse_input_file" =>
        /\ call.ret = parse_input_file(call.input, <<>>).ret
        /\ \A k \in 1..Len(call.ret) :
              call.ret[k].dataset_url # <<>> =>
                  \/ Contains(call.input.path, call.ret[k].dataset_url)
                  \/ /\ call.input.file # <<>>
                     /\ \E i \in 1..Len(call.input.file[1].l) :
                           Contains(call.input.file[1].l[i], call.ret[k].dataset_url)
        /\ (call.prev # <<>> /\ call.prev[1].input = call.input) =>
              call.ret = call.prev[1].ret


\* the scores of a log entry: its results without the latencies, the name
\* and the category
ScoresOf(e) ==
    [k \in DOMAIN e.results \ (LatencyKeys \cup {"net_score_latency", "name", "category"})
        |-> e.results[k]]

SameScoring(a, b) ==
    /\ a.mode = b.mode /\ a.url = b.url
    /\ a.upstream = b.upstream /\ a.failing = b.failing

\* Two scorings of the same URL within one interpreter process, with the same
\* upstream, give the same scores
ScoringRepeatableWithinProcess ==
    call.op = "scoring" =>
        \A i, j \in 1..Len(call.log) :
            (SameScoring(call.log[i], call.log[j]) /\ call.log[i].process = call.log[j].process)
                => (call.log[i].raised = call.log[j].raised
                    /\ ScoresOf(call.log[i]) = ScoresOf(call.log[j]))

\* C24 (SpecScoring): scoring is deterministic and history-free: scoring the
\* same URL twice with identical upstream responses yields identical metric
\* scores, size map and net_score, both for two process_url calls and for a
\* URL processed in run_score_all after other URLs were scored with the same
\* metric instances.
ScoringDeterministic ==
    call.op = "scoring" =>
        \A i, j \in 1..Len(call.log) :
            SameScoring(call.log[i], call.log[j])
                => (call.log[i].raised = call.log[j].raised
                    /\ ScoresOf(call.log[i]) = ScoresOf(call.log[j]))

====
